---- MODULE Spec2Model ----
(***************************************************************************)
(* Chirpy server (WOsaka/chirpy-server): the authentication core           *)
(* (internal/auth) and the request handlers over the relational store.     *)
(*                                                                         *)
(* A Go string is a sequence of characters; a character is a one-letter    *)
(* TLA+ string (NUL stands for the byte 0).  Time is counted in ticks of   *)
(* 1/TicksPerSecond second.                                                *)
(***************************************************************************)
EXTENDS Integers, Sequences, FiniteSets, TLC

VARIABLES
    now,             \* the wall clock (time.Now()), in ticks
    ticks,           \* how many times the clock has advanced between two requests
    lates,           \* the ticks that handlers have spent between two clock readings
    platform,        \* cfg.platform
    users,           \* table users
    chirps,          \* table chirps
    refresh_tokens,  \* table refresh_tokens
    fileserverHits,  \* cfg.fileserverHits
    creating,        \* createUserHandler requests between CreateUser and SetPassword
    pending,         \* login, reset and delete requests between two store operations
    nextUUID,        \* how many identifiers gen_random_uuid() has drawn
    nextRand,        \* how many times crypto/rand has been read
    issued,          \* every session JWT handed out so far
    revoked204,      \* refresh tokens whose revoke request ended with 204
    probe            \* inputs and result of the auth functions called directly

vars == <<now, ticks, lates, platform, users, chirps, refresh_tokens, fileserverHits,
          creating, pending, nextUUID, nextRand, issued, revoked204, probe>>

store == <<now, ticks, lates, platform, users, chirps, refresh_tokens, fileserverHits,
           creating, pending, nextUUID, nextRand, issued, revoked204>>

------------------------------------------------------------------------------
(* Strings *)

NUL == "NUL"

\* the characters '\v' (U+000B), U+0085 and U+00A0
VT == "VT"
NEL == "NEL"
NBSP == "NBSP"

\* the space characters beyond Latin-1 (the White_Space property): U+1680,
\* U+2000 to U+200A, U+2028, U+2029, U+202F, U+205F and U+3000
WhiteSpace ==
    { "U+1680", "U+2000", "U+2001", "U+2002", "U+2003", "U+2004", "U+2005", "U+2006",
      "U+2007", "U+2008", "U+2009", "U+200A", "U+2028", "U+2029", "U+202F", "U+205F",
      "U+3000" }

\* unicode.IsSpace, as strings.Fields uses it: '\t', '\n', '\v', '\f', '\r',
\* ' ', U+0085, U+00A0 and the characters with the White_Space property
IsSpace(c) == c \in {" ", "\t", "\n", VT, "\f", "\r", NEL, NBSP} \cup WhiteSpace

\* the index of the first space of s, Len(s)+1 when there is none
FirstSpace(s) ==
    IF \E i \in 1..Len(s) : IsSpace(s[i])
    THEN CHOOSE i \in 1..Len(s) : IsSpace(s[i]) /\ \A j \in 1..(i-1) : ~IsSpace(s[j])
    ELSE Len(s) + 1

\* strings.Fields: the maximal runs of non-space characters, in order
RECURSIVE Fields(_)
Fields(s) ==
    IF s = <<>> THEN <<>>
    ELSE IF IsSpace(Head(s)) THEN Fields(Tail(s))
    ELSE LET n == FirstSpace(s)
         IN  <<SubSeq(s, 1, n - 1)>> \o Fields(SubSeq(s, n, Len(s)))

\* strings.Split(s, sep) for a one-character separator
RECURSIVE Split(_, _)
Split(s, sep) ==
    IF \E i \in 1..Len(s) : s[i] = sep
    THEN LET n == CHOOSE i \in 1..Len(s) : s[i] = sep /\ \A j \in 1..(i-1) : s[j] # sep
         IN  <<SubSeq(s, 1, n - 1)>> \o Split(SubSeq(s, n + 1, Len(s)), sep)
    ELSE <<s>>

------------------------------------------------------------------------------
(* http.Header and the credential extractor *)

\* http.Header.Get: the value of the header, "" when it is absent
HeaderGet(headers, key) == IF key \in DOMAIN headers THEN headers[key] ELSE <<>>

NoHeaders == [k \in {} |-> <<>>]
WithAuthorization(v) == [k \in {"Authorization"} |-> v]

\* the bug of indexing the first field
GetBearerTokenFirstField(headers) ==
    LET authHeader == HeaderGet(headers, "Authorization")
    IN  IF authHeader = <<>>
        THEN [kind |-> "error", token |-> <<>>]
        ELSE IF Len(Fields(authHeader)) < 1
        THEN [kind |-> "panic", token |-> <<>>]
        ELSE [kind |-> "ok", token |-> Fields(authHeader)[1]]

\* auth.GetBearerToken: strings.Fields(authHeader)[1]; the index expression
\* panics (index out of range) when there are fewer than two fields
GetBearerToken(headers) ==
    LET authHeader == HeaderGet(headers, "Authorization")
    IN  IF authHeader = <<>>
        THEN [kind |-> "error", token |-> <<>>]
        ELSE IF Len(Fields(authHeader)) < 2
        THEN [kind |-> "panic", token |-> <<>>]
        ELSE [kind |-> "ok", token |-> Fields(authHeader)[2]]

\* a GetAPIKey that takes the first field
GetAPIKeyFirstField(headers) ==
    LET headerValue == HeaderGet(headers, "Authorization")
        fields == Fields(headerValue)
    IN  IF headerValue = <<>>
        THEN [kind |-> "error", token |-> <<>>]
        ELSE IF Len(fields) = 0
        THEN [kind |-> "error", token |-> <<>>]
        ELSE [kind |-> "ok", token |-> fields[1]]

\* auth.GetAPIKey: the last field
GetAPIKey(headers) ==
    LET headerValue == HeaderGet(headers, "Authorization")
        fields == Fields(headerValue)
    IN  IF headerValue = <<>>
        THEN [kind |-> "error", token |-> <<>>]
        ELSE IF Len(fields) = 0
        THEN [kind |-> "error", token |-> <<>>]
        ELSE [kind |-> "ok", token |-> fields[Len(fields)]]

------------------------------------------------------------------------------
(* Bytes and base64 (encoding/base64, RawURLEncoding) *)

B64 == << "A","B","C","D","E","F","G","H","I","J","K","L","M",
          "N","O","P","Q","R","S","T","U","V","W","X","Y","Z",
          "a","b","c","d","e","f","g","h","i","j","k","l","m",
          "n","o","p","q","r","s","t","u","v","w","x","y","z",
          "0","1","2","3","4","5","6","7","8","9","-","_" >>

B64Chars == { B64[i] : i \in 1..64 }
B64Table == [c \in B64Chars |-> (CHOOSE i \in 1..64 : B64[i] = c) - 1]

IsB64(c) == c \in B64Chars
B64Index(c) == B64Table[c]

\* the characters of the model besides the base64 alphabet
OtherChars == { NUL, "\n", "\r", "!", ".", " ", "\t" }

\* the byte of a character of the model's text
TextByte(c) ==
    IF c = NUL THEN 0
    ELSE IF c = "\t" THEN 9
    ELSE IF c = "\n" THEN 10
    ELSE IF c = "\r" THEN 13
    ELSE IF c = " " THEN 32
    ELSE IF c = "!" THEN 33
    ELSE IF c = "-" THEN 45
    ELSE IF c = "." THEN 46
    ELSE IF c = "_" THEN 95
    ELSE LET x == B64Table[c]
         IN  IF x < 26 THEN 65 + x ELSE IF x < 52 THEN 97 + (x - 26) ELSE 48 + (x - 52)

HexDigits == << "0","1","2","3","4","5","6","7","8","9","a","b","c","d","e","f" >>

\* a Go string holds any bytes: the byte b that is no character of the model's
\* text, as an element of a string ("\xf3")
RawChar(b) == "x" \o HexDigits[(b \div 16) + 1] \o HexDigits[(b % 16) + 1]

RawBytes == (0..255) \ { TextByte(c) : c \in B64Chars \cup OtherChars }
RawChars == { RawChar(b) : b \in RawBytes }

\* the byte of a character ([]byte(s))
ByteTable ==
    [c \in B64Chars \cup OtherChars \cup RawChars |->
        IF c \in RawChars THEN CHOOSE b \in RawBytes : RawChar(b) = c ELSE TextByte(c)]

ByteOf(c) == ByteTable[c]

Bytes(s) == [i \in 1..Len(s) |-> ByteOf(s[i])]

\* the string of a sequence of bytes (string(b))
StringTable == [b \in 0..255 |-> CHOOSE c \in DOMAIN ByteTable : ByteTable[c] = b]

String(b) == [i \in 1..Len(b) |-> StringTable[b[i]]]

\* the character of a byte (string(b)); "" for a byte outside the model's text
CharTable ==
    [b \in 0..255 |->
        IF \E c \in B64Chars \cup { NUL } : ByteTable[c] = b
        THEN CHOOSE c \in B64Chars \cup { NUL } : ByteTable[c] = b
        ELSE ""]

IsByteOfChar(b) == CharTable[b] # ""
CharOf(b) == CharTable[b]

\* n as k bytes, most significant first
RECURSIVE BigEndian(_, _)
BigEndian(n, k) == IF k = 0 THEN <<>> ELSE Append(BigEndian(n \div 256, k - 1), n % 256)

RECURSIVE FromBigEndian(_)
FromBigEndian(b) ==
    IF b = <<>> THEN 0 ELSE 256 * FromBigEndian(SubSeq(b, 1, Len(b) - 1)) + b[Len(b)]

\* Encoding.EncodeToString without padding: 3 bytes make 4 characters; a
\* remainder of 1 or 2 bytes makes 2 or 3 characters whose unused low bits are 0
RECURSIVE EncodeToString(_)
EncodeToString(b) ==
    IF Len(b) = 0 THEN <<>>
    ELSE IF Len(b) = 1
    THEN << B64[(b[1] \div 4) + 1], B64[((b[1] % 4) * 16) + 1] >>
    ELSE IF Len(b) = 2
    THEN << B64[(b[1] \div 4) + 1], B64[((b[1] % 4) * 16 + b[2] \div 16) + 1],
            B64[((b[2] % 16) * 4) + 1] >>
    ELSE << B64[(b[1] \div 4) + 1], B64[((b[1] % 4) * 16 + b[2] \div 16) + 1],
            B64[((b[2] % 16) * 4 + b[3] \div 64) + 1], B64[(b[3] % 64) + 1] >>
         \o EncodeToString(SubSeq(b, 4, Len(b)))

\* the bytes of a sequence of 6-bit values; the unused low bits of a trailing
\* partial group are dropped without a check (the decoder is not Strict())
RECURSIVE DecodeQuanta(_)
DecodeQuanta(v) ==
    IF Len(v) < 2 THEN <<>>
    ELSE IF Len(v) = 2 THEN << v[1] * 4 + v[2] \div 16 >>
    ELSE IF Len(v) = 3
    THEN << v[1] * 4 + v[2] \div 16, (v[2] % 16) * 16 + v[3] \div 4 >>
    ELSE << v[1] * 4 + v[2] \div 16, (v[2] % 16) * 16 + v[3] \div 4,
            (v[3] % 4) * 64 + v[4] >>
         \o DecodeQuanta(SubSeq(v, 5, Len(v)))

NotNewline(c) == c \notin {"\n", "\r"}

\* jwt.Parser.DecodeSegment: base64.RawURLEncoding.DecodeString, which skips
\* \r and \n, fails on any other character outside the alphabet and on a
\* dangling single character
DecodeSegment(seg) ==
    LET s == SelectSeq(seg, NotNewline)
        v == [i \in 1..Len(s) |-> B64Index(s[i])]
    IN  IF \E i \in 1..Len(s) : ~IsB64(s[i]) THEN [ok |-> FALSE, bytes |-> <<>>]
        ELSE IF Len(s) % 4 = 1 THEN [ok |-> FALSE, bytes |-> <<>>]
        ELSE [ok |-> TRUE, bytes |-> DecodeQuanta(v)]

------------------------------------------------------------------------------
(* Time, identifiers *)

TicksPerSecond == 2
Second == TicksPerSecond
Hour == 3600 * Second

\* jwt.NewNumericDate: the time truncated down to whole seconds
NumericDate(t) == t \div TicksPerSecond
\* the instant of a NumericDate
TimeOf(d) == d * TicksPerSecond

Digits == << "0","1","2","3","4","5","6","7","8","9" >>
IsDigit(c) == \E i \in 1..10 : Digits[i] = c
DigitValue(c) == (CHOOSE i \in 1..10 : Digits[i] = c) - 1

\* uuid.UUID values are the numbers 0..9 (uuid.Nil is 0); the textual form
\* stands for the 36-character canonical form
UUIDNil == 0
UUIDString(id) == << "u", Digits[id + 1] >>

\* uuid.Parse
UUIDParse(s) ==
    IF Len(s) = 2 /\ s[1] = "u" /\ IsDigit(s[2])
    THEN [ok |-> TRUE, id |-> DigitValue(s[2])]
    ELSE [ok |-> FALSE, id |-> UUIDNil]

------------------------------------------------------------------------------
(* JSON Web Tokens (github.com/golang-jwt/jwt/v5, HS256) *)

Issuer == << "c","h","i","r","p","y" >>

\* the header {"alg":"HS256","typ":"JWT"}: one byte per member
HeaderBytes == << 72, 83, 74 >>

\* a JSON number (a count of seconds, negative before 1970) as four bytes:
\* the sign in the highest bit, the magnitude in the other 31
NumberBytes(n) ==
    LET m == IF n < 0 THEN 0 - n ELSE n
        b == BigEndian(m, 4)
    IN  IF n < 0 THEN [b EXCEPT ![1] = b[1] + 128] ELSE b

\* the number written in four bytes
BytesNumber(b) ==
    LET m == FromBigEndian(<< b[1] % 128, b[2], b[3], b[4] >>)
    IN  IF b[1] >= 128 THEN 0 - m ELSE m

\* json.Marshal of the registered claims: iss, sub, exp and iat (seconds)
MarshalClaims(c) ==
    Bytes(c.iss) \o Bytes(c.sub) \o NumberBytes(c.exp) \o NumberBytes(c.iat)

\* json.Unmarshal into jwt.RegisteredClaims
UnmarshalClaims(b) ==
    IF Len(b) = 16 /\ \A i \in 1..8 : IsByteOfChar(b[i])
    THEN [ok |-> TRUE,
          claims |-> [iss |-> [i \in 1..6 |-> CharOf(b[i])],
                      sub |-> [i \in 1..2 |-> CharOf(b[6 + i])],
                      exp |-> BytesNumber(SubSeq(b, 9, 12)),
                      iat |-> BytesNumber(SubSeq(b, 13, 16))]]
    ELSE [ok |-> FALSE, claims |-> [iss |-> <<>>, sub |-> <<>>, exp |-> 0, iat |-> 0]]

\* the block size of SHA-256, in bytes
BlockSize == 64

\* crypto/sha256.Sum256: the SHA-256 digest (32 bytes) of a sequence of bytes.
\* A 32-bit word is a pair of 16-bit halves, the more significant first.
Sum256(data) ==
    LET K == <<<<17034, 12184>>, <<28983, 17553>>, <<46528, 64463>>, <<59829, 56229>>,
              <<14678, 49755>>, <<23025, 4593>>, <<37439, 33444>>, <<43804, 24277>>,
              <<55303, 43672>>, <<4739, 23297>>, <<9265, 34238>>, <<21772, 32195>>,
              <<29374, 23924>>, <<32990, 45566>>, <<39900, 1703>>, <<49563, 61812>>,
              <<58523, 27073>>, <<61374, 18310>>, <<4033, 40390>>, <<9228, 41420>>,
              <<11753, 11375>>, <<19060, 33962>>, <<23728, 43484>>, <<30457, 35034>>,
              <<38974, 20818>>, <<43057, 50797>>, <<45059, 10184>>, <<48985, 32711>>,
              <<50912, 3059>>, <<54695, 37191>>, <<1738, 25425>>, <<5161, 10599>>,
              <<10167, 2693>>, <<11803, 8504>>, <<19756, 28156>>, <<21304, 3347>>,
              <<25866, 29524>>, <<30314, 2747>>, <<33218, 51502>>, <<37490, 11397>>,
              <<41663, 59553>>, <<43034, 26187>>, <<49739, 35696>>, <<51052, 20899>>,
              <<53650, 59417>>, <<54937, 1572>>, <<62478, 13701>>, <<4202, 41072>>,
              <<6564, 49430>>, <<7735, 27656>>, <<10056, 30540>>, <<13488, 48309>>,
              <<14620, 3251>>, <<20184, 43594>>, <<23452, 51791>>, <<26670, 28659>>,
              <<29839, 33518>>, <<30885, 25455>>, <<33992, 30740>>, <<36039, 520>>,
              <<37054, 65530>>, <<42064, 27883>>, <<48889, 41975>>, <<50801, 30962>>>>
        init == <<<<27145, 58983>>, <<47975, 44677>>, <<15470, 62322>>, <<42319, 62778>>,
              <<20750, 21119>>, <<39685, 26764>>, <<8067, 55723>>, <<23520, 52505>>>>
        RECURSIVE Xor16(_, _)
        Xor16(a, b) == IF a = 0 THEN b
                       ELSE IF b = 0 THEN a
                       ELSE 2 * Xor16(a \div 2, b \div 2) + ((a + b) % 2)
        RECURSIVE And16(_, _)
        And16(a, b) == IF a = 0 \/ b = 0 THEN 0
                       ELSE 2 * And16(a \div 2, b \div 2) + ((a % 2) * (b % 2))
        Xor(x, y) == << Xor16(x[1], y[1]), Xor16(x[2], y[2]) >>
        And(x, y) == << And16(x[1], y[1]), And16(x[2], y[2]) >>
        Not(x) == << 65535 - x[1], 65535 - x[2] >>
        Add(x, y) == << (x[1] + y[1] + ((x[2] + y[2]) \div 65536)) % 65536,
                        (x[2] + y[2]) % 65536 >>
        \* x >> n, for n < 16
        Shr(x, n) == << x[1] \div (2 ^ n),
                        (x[2] \div (2 ^ n)) + (x[1] % (2 ^ n)) * (2 ^ (16 - n)) >>
        \* bits.RotateLeft32(x, -n)
        Rotr(x, n) ==
            LET y == IF n >= 16 THEN << x[2], x[1] >> ELSE x
                m == n % 16
            IN  << (y[1] \div (2 ^ m)) + (y[2] % (2 ^ m)) * (2 ^ (16 - m)),
                   (y[2] \div (2 ^ m)) + (y[1] % (2 ^ m)) * (2 ^ (16 - m)) >>
        \* the message, the byte 0x80, zero bytes, and the length in bits as
        \* 8 bytes, a whole number of blocks of 64 bytes
        Padded(d) == d \o << 128 >> \o [i \in 1..((119 - (Len(d) % 64)) % 64) |-> 0]
                       \o << 0, 0, 0, 0 >> \o BigEndian(8 * Len(d), 4)
        Xor3(x, y, z) == Xor(Xor(x, y), z)
        Add3(x, y, z) == Add(Add(x, y), z)
        \* the 64 words of the message schedule
        Extend(w, t) ==
            Append(w, Add(Add3(Xor3(Rotr(w[t - 2], 17), Rotr(w[t - 2], 19), Shr(w[t - 2], 10)),
                               w[t - 7],
                               Xor3(Rotr(w[t - 15], 7), Rotr(w[t - 15], 18), Shr(w[t - 15], 3))),
                          w[t - 16]))
        RECURSIVE Schedule(_)
        Schedule(w) == IF Len(w) >= 64 THEN w ELSE Schedule(Extend(w, Len(w) + 1))
        \* one round on the working variables a..h = s[1]..s[8]
        T1(s, k, w) == Add(Add3(s[8], Xor3(Rotr(s[5], 6), Rotr(s[5], 11), Rotr(s[5], 25)),
                                Xor(And(s[5], s[6]), And(Not(s[5]), s[7]))),
                           Add(k, w))
        T2(s) == Add(Xor3(Rotr(s[1], 2), Rotr(s[1], 13), Rotr(s[1], 22)),
                     Xor3(And(s[1], s[2]), And(s[1], s[3]), And(s[2], s[3])))
        Round(s, t1, t2) == << Add(t1, t2), s[1], s[2], s[3], Add(s[4], t1), s[5], s[6], s[7] >>
        \* the test of the length makes TLC evaluate the state before the next round
        RECURSIVE Rounds(_, _, _)
        Rounds(s, w, i) ==
            IF i > 64 \/ Len(s) # 8 THEN s
            ELSE Rounds(Round(s, T1(s, K[i], w[i]), T2(s)), w, i + 1)
        Words(p) == [j \in 1..16 |-> << p[4 * j - 3] * 256 + p[4 * j - 2],
                                        p[4 * j - 1] * 256 + p[4 * j] >>]
        Sum(h, s) == [j \in 1..8 |-> Add(h[j], s[j])]
        \* block: one block of 64 bytes after the other
        RECURSIVE Blocks(_, _)
        Blocks(h, p) ==
            IF p = <<>> \/ Len(h) # 8 THEN h
            ELSE Blocks(Sum(h, Rounds(h, Schedule(Words(p)), 1)), SubSeq(p, 65, Len(p)))
        \* the 8 words as 32 bytes, big-endian
        Digest(h) == [i \in 1..32 |->
            IF i % 2 = 1 THEN h[((i - 1) \div 4) + 1][(((i - 1) % 4) \div 2) + 1] \div 256
            ELSE h[((i - 1) \div 4) + 1][(((i - 1) % 4) \div 2) + 1] % 256]
    IN  Digest(Blocks(init, Padded(data)))

\* the secrets longer than the block that the specifications use
LongSecret == [i \in 1..(BlockSize + 1) |-> "k"]
LongSecretNUL == [i \in 1..(BlockSize + 1) |-> IF i <= BlockSize THEN "k" ELSE NUL]

\* their digests, computed once
Sum256Known == [key \in { Bytes(LongSecret), Bytes(LongSecretNUL) } |-> Sum256(key)]

\* crypto/hmac key preparation (hmac.New): a key longer than the block is
\* replaced by its SHA-256 digest, and the key is padded with zero bytes to the
\* block size
KeyPad(key) ==
    LET Pad(k) == [i \in 1..BlockSize |-> IF i <= Len(k) THEN k[i] ELSE 0]
    IN  Pad(IF Len(key) <= BlockSize THEN key
            ELSE IF key \in DOMAIN Sum256Known THEN Sum256Known[key]
            ELSE Sum256(key))

\* a key block without the zero bytes of its padding
Unpadded(block) ==
    LET used == { i \in 1..Len(block) : block[i] # 0 } \cup { 0 }
    IN  SubSeq(block, 1, CHOOSE n \in used : \A i \in used : i <= n)

\* SigningMethodHMAC.Sign: the HMAC-SHA256 tag of msg under key, a function of
\* the key block and of the message in which no two pairs have the same tag.
\* The tag holds both with their lengths, and zero bytes up to a length that,
\* like the 32 bytes of SHA-256, leaves 2 unused bits in the last base64
\* character.
HS256(key, msg) ==
    LET Body(k) == BigEndian(Len(k), 2) \o BigEndian(Len(msg), 2) \o k \o Bytes(msg)
        Tag(body) == body \o [i \in 1..((5 - (Len(body) % 3)) % 3) |-> 0]
    IN  Tag(Body(Unpadded(KeyPad(Bytes(key)))))

\* Token.SignedString: header.claims.signature
SignedString(claims, key) ==
    LET sstr == EncodeToString(HeaderBytes) \o <<".">> \o EncodeToString(MarshalClaims(claims))
    IN  sstr \o <<".">> \o EncodeToString(HS256(key, sstr))

\* a MakeJWT that ignores expiresIn
MakeJWTExpiringAtIssue(userID, tokenSecret, expiresIn, t, late) ==
    SignedString([iss |-> Issuer,
                  iat |-> NumericDate(t),
                  exp |-> NumericDate(t),
                  sub |-> UUIDString(userID)], tokenSecret)

\* auth.MakeJWT: time.Now() is read at t for IssuedAt and again, late ticks
\* after it, for ExpiresAt
MakeJWT(userID, tokenSecret, expiresIn, t, late) ==
    SignedString([iss |-> Issuer,
                  iat |-> NumericDate(t),
                  exp |-> NumericDate(t + late + expiresIn),
                  sub |-> UUIDString(userID)], tokenSecret)

JWTError(e) == [ok |-> FALSE, id |-> UUIDNil, err |-> e]

\* ValidateJWT without the expiry check
ValidateJWTNoExpiry(tokenString, tokenSecret, t) ==
    LET parts == Split(tokenString, ".")
        hdr == DecodeSegment(parts[1])
        pay == DecodeSegment(parts[2])
        sig == DecodeSegment(parts[3])
        cl == UnmarshalClaims(pay.bytes)
        uid == UUIDParse(cl.claims.sub)
    IN  IF Len(parts) # 3 THEN JWTError("malformed")
        ELSE IF ~hdr.ok \/ Len(hdr.bytes) # 3 THEN JWTError("malformed")
        ELSE IF ~pay.ok \/ ~cl.ok THEN JWTError("malformed")
        ELSE IF SubSeq(hdr.bytes, 1, 2) # SubSeq(HeaderBytes, 1, 2) THEN JWTError("unverifiable")
        ELSE IF ~sig.ok THEN JWTError("malformed")
        ELSE IF sig.bytes # HS256(tokenSecret, parts[1] \o <<".">> \o parts[2])
        THEN JWTError("signature")
        ELSE IF ~uid.ok THEN JWTError("subject")
        ELSE [ok |-> TRUE, id |-> uid.id, err |-> ""]

\* ValidateJWT without the signature check
ValidateJWTNoSignature(tokenString, tokenSecret, t) ==
    LET parts == Split(tokenString, ".")
        hdr == DecodeSegment(parts[1])
        pay == DecodeSegment(parts[2])
        sig == DecodeSegment(parts[3])
        cl == UnmarshalClaims(pay.bytes)
        uid == UUIDParse(cl.claims.sub)
    IN  IF Len(parts) # 3 THEN JWTError("malformed")
        ELSE IF ~hdr.ok \/ Len(hdr.bytes) # 3 THEN JWTError("malformed")
        ELSE IF ~pay.ok \/ ~cl.ok THEN JWTError("malformed")
        ELSE IF SubSeq(hdr.bytes, 1, 2) # SubSeq(HeaderBytes, 1, 2) THEN JWTError("unverifiable")
        ELSE IF ~sig.ok THEN JWTError("malformed")
        ELSE IF ~(t < TimeOf(cl.claims.exp)) THEN JWTError("expired")
        ELSE IF ~uid.ok THEN JWTError("subject")
        ELSE [ok |-> TRUE, id |-> uid.id, err |-> ""]

\* a ValidateJWT that looks the subject up in the users table
ValidateJWTOfStoredUser(tokenString, tokenSecret, t) ==
    LET parts == Split(tokenString, ".")
        hdr == DecodeSegment(parts[1])
        pay == DecodeSegment(parts[2])
        sig == DecodeSegment(parts[3])
        cl == UnmarshalClaims(pay.bytes)
        uid == UUIDParse(cl.claims.sub)
    IN  IF Len(parts) # 3 THEN JWTError("malformed")
        ELSE IF ~hdr.ok \/ Len(hdr.bytes) # 3 THEN JWTError("malformed")
        ELSE IF ~pay.ok \/ ~cl.ok THEN JWTError("malformed")
        ELSE IF SubSeq(hdr.bytes, 1, 2) # SubSeq(HeaderBytes, 1, 2) THEN JWTError("unverifiable")
        ELSE IF ~sig.ok THEN JWTError("malformed")
        ELSE IF sig.bytes # HS256(tokenSecret, parts[1] \o <<".">> \o parts[2])
        THEN JWTError("signature")
        ELSE IF ~(t < TimeOf(cl.claims.exp)) THEN JWTError("expired")
        ELSE IF ~uid.ok THEN JWTError("subject")
        ELSE IF \A u \in users : u.id # uid.id THEN JWTError("subject")
        ELSE [ok |-> TRUE, id |-> uid.id, err |-> ""]

\* auth.ValidateJWT at time t: jwt.ParseWithClaims (three segments; header and
\* claims decoded and parsed; the signature decoded and compared with the tag
\* of header.claims as received; exp checked by now.Before(exp)), then the
\* subject parsed as a UUID
ValidateJWT(tokenString, tokenSecret, t) ==
    LET parts == Split(tokenString, ".")
        hdr == DecodeSegment(parts[1])
        pay == DecodeSegment(parts[2])
        sig == DecodeSegment(parts[3])
        cl == UnmarshalClaims(pay.bytes)
        uid == UUIDParse(cl.claims.sub)
    IN  IF Len(parts) # 3 THEN JWTError("malformed")
        ELSE IF ~hdr.ok \/ Len(hdr.bytes) # 3 THEN JWTError("malformed")
        ELSE IF ~pay.ok \/ ~cl.ok THEN JWTError("malformed")
        ELSE IF SubSeq(hdr.bytes, 1, 2) # SubSeq(HeaderBytes, 1, 2) THEN JWTError("unverifiable")
        ELSE IF ~sig.ok THEN JWTError("malformed")
        ELSE IF sig.bytes # HS256(tokenSecret, parts[1] \o <<".">> \o parts[2])
        THEN JWTError("signature")
        ELSE IF ~(t < TimeOf(cl.claims.exp)) THEN JWTError("expired")
        ELSE IF ~uid.ok THEN JWTError("subject")
        ELSE [ok |-> TRUE, id |-> uid.id, err |-> ""]

------------------------------------------------------------------------------
(* The auth functions called directly, as the package's tests call them *)

MaxProbeUser == 2
MaxLag == 3
MaxHdrLen == 4

\* a time of issue: a whole second and the ticks after it
T0 == 5 * Second

NoProbe == [phase |-> "none"]

\* the 32 bytes of the digest of LongSecret, as a secret
DigestSecret == String(Sum256Known[Bytes(LongSecret)])

ProbeSecrets == { <<>>, <<NUL>>, <<"k">>, <<"k", NUL>>, <<"s">>, <<"k", "s">>,
                  LongSecret, LongSecretNUL, DigestSecret }
ProbeDurations == { 0 - Hour, 0 - Second, 1, Second, Second + 1, Hour }
\* the ticks between the two readings of the clock in MakeJWT
ProbeLates == { 0, 1 }
ProbeIssueTimes == T0 .. (T0 + Second - 1)
ProbeLags == (0 .. MaxLag) \cup { Hour - 1, Hour, Hour + 1 }
TamperChars == { B64[i] : i \in 1..64 } \cup { ".", "\n", "!" }

JWTProbes ==
    { [phase |-> "issued", u |-> u, s |-> s, d |-> d, t0 |-> t0, late |-> late,
       tok |-> MakeJWT(u, s, d, t0, late), s2 |-> s, t |-> t0 + late, tok2 |-> <<>>,
       res |-> JWTError("")] :
      u \in 1..MaxProbeUser, s \in ProbeSecrets, d \in ProbeDurations,
      t0 \in ProbeIssueTimes, late \in ProbeLates }

\* ValidateJWT(token, s2) called lag ticks after the token was made
ProbeValidate(s2, lag) ==
    /\ probe.phase = "issued"
    /\ probe' = [probe EXCEPT !.phase = "validated", !.s2 = s2,
                              !.t = probe.t0 + probe.late + lag,
                              !.res = ValidateJWT(probe.tok, s2, probe.t0 + probe.late + lag)]
    /\ UNCHANGED store

\* ValidateJWT, with the secret of issue and at the time of issue, of the token
\* with the character at position i replaced by c
ProbeTamper(i, c) ==
    /\ probe.phase = "issued"
    /\ probe.d = Hour
    /\ probe.s = <<"k">>
    /\ i \in 1..Len(probe.tok)
    /\ c # probe.tok[i]
    /\ LET tampered == [probe.tok EXCEPT ![i] = c]
       IN  probe' = [probe EXCEPT !.phase = "tampered", !.tok2 = tampered,
                                  !.res = ValidateJWT(tampered, probe.s,
                                                      probe.t0 + probe.late)]
    /\ UNCHANGED store

RECURSIVE SeqsUpTo(_, _)
SeqsUpTo(S, n) ==
    IF n = 0 THEN { <<>> }
    ELSE LET shorter == SeqsUpTo(S, n - 1)
         IN  shorter \cup { Append(w, c) : w \in shorter, c \in S }

BearerAbc123 == << "B","e","a","r","e","r"," ","a","b","c","1","2","3" >>
ApiKeyXyz == << "A","p","i","K","e","y"," ","x","y","z" >>

HdrChars == { " ", VT, NBSP, "a", "b" }
ProbeHeaders ==
    { NoHeaders } \cup
    { WithAuthorization(v) : v \in SeqsUpTo(HdrChars, MaxHdrLen) \cup { BearerAbc123, ApiKeyXyz, << "x","y","z" >> } }

HeaderProbes == { [phase |-> "header", headers |-> h, res |-> [kind |-> "none", token |-> <<>>]] :
                  h \in ProbeHeaders }

ProbeGetBearerToken ==
    /\ probe.phase = "header"
    /\ probe' = [probe EXCEPT !.phase = "bearer", !.res = GetBearerToken(probe.headers)]
    /\ UNCHANGED store

ProbeGetAPIKey ==
    /\ probe.phase = "header"
    /\ probe' = [probe EXCEPT !.phase = "apikey", !.res = GetAPIKey(probe.headers)]
    /\ UNCHANGED store

------------------------------------------------------------------------------
(* The store: sql/schema and sql/queries *)

MaxTicks == 1
MaxLate == 1
MaxUUID == 2
MaxRand == 2
MaxJWT == 2
MaxInflight == 1
MaxHits == 3

RefreshTTL == 60 * 24 * Hour

\* sql.NullTime
NullTime == [Valid |-> FALSE, Time |-> 0]
ValidTime(t) == [Valid |-> TRUE, Time |-> t]

\* the column default 'unset' of users.hashed_password: a text that is no hash
Unset == [bcrypt |-> FALSE, text |-> "unset"]

\* CreateUser: the row INSERT INTO users makes (hashed_password and
\* is_chirpy_red take their column defaults)
UserRow(id, email, t) ==
    [id |-> id, created_at |-> t, updated_at |-> t, email |-> email,
     hashed_password |-> Unset, is_chirpy_red |-> FALSE]

\* CreateUser fails on the UNIQUE constraint of users.email
CanCreateUser(tbl, email) == \A u \in tbl : u.email # email

\* SetPassword: UPDATE users SET hashed_password = $1 WHERE email = $2
SetPassword(tbl, hash, email) ==
    { IF u.email = email THEN [u EXCEPT !.hashed_password = hash] ELSE u : u \in tbl }

\* GetUserByEmail
GetUserByEmail(tbl, email) == { u \in tbl : u.email = email }

\* UpdateUserCredentials: UPDATE users SET email, hashed_password, updated_at WHERE id = $3
UpdateUserCredentials(tbl, email, hash, id, t) ==
    { IF u.id = id
      THEN [u EXCEPT !.email = email, !.hashed_password = hash, !.updated_at = t]
      ELSE u : u \in tbl }

\* UpdateUserCredentials returns a row (:one) and keeps users.email UNIQUE
CanUpdateUserCredentials(tbl, email, id) ==
    /\ \E u \in tbl : u.id = id
    /\ \A u \in tbl : u.email = email => u.id = id

\* SetChirpyRedByID
SetChirpyRedByID(tbl, id, t) ==
    { IF u.id = id THEN [u EXCEPT !.is_chirpy_red = TRUE, !.updated_at = t] ELSE u : u \in tbl }

\* CreateChirp
ChirpRow(id, body, userID, t) ==
    [id |-> id, created_at |-> t, updated_at |-> t, body |-> body, user_id |-> userID]

\* FOREIGN KEY (user_id) REFERENCES users(id): an insert needs the user
UserExists(tbl, id) == \E u \in tbl : u.id = id

\* GetChirpByID
GetChirpByID(tbl, id) == { c \in tbl : c.id = id }

\* DeleteChirpByID
DeleteChirpByID(tbl, id) == { c \in tbl : c.id # id }

\* CreateRefreshToken
RefreshTokenRow(token, userID, expiresAt, t) ==
    [token |-> token, created_at |-> t, updated_at |-> t, user_id |-> userID,
     expires_at |-> expiresAt, revoked_at |-> NullTime]

\* a lookup that returns every row when the token is stored
GetRefreshTokenOfAnyone(tbl, token) ==
    IF \E r \in tbl : r.token = token THEN tbl ELSE {}

\* GetRefreshTokenByToken
GetRefreshTokenByToken(tbl, token) == { r \in tbl : r.token = token }

\* a revoke that marks every row
RevokeEveryRefreshToken(tbl, token, t) ==
    { [r EXCEPT !.revoked_at = ValidTime(t), !.updated_at = t] : r \in tbl }

\* RevokeRefreshToken: UPDATE refresh_tokens SET revoked_at = NOW(), updated_at = NOW()
\* WHERE token = $1
RevokeRefreshToken(tbl, token, t) ==
    { IF r.token = token THEN [r EXCEPT !.revoked_at = ValidTime(t), !.updated_at = t] ELSE r :
      r \in tbl }

\* a delete of users that leaves the referencing rows behind
NoCascade(tbl, remaining) == tbl

\* ON DELETE CASCADE: the rows of tbl whose user is still in the users table
Cascade(tbl, remaining) == { r \in tbl : \E u \in remaining : u.id = r.user_id }

\* DeleteAllUsers: DELETE FROM users
DeleteAllUsers(tbl) == {}

------------------------------------------------------------------------------
(* Helpers of the handlers *)

HasPrefix(s, p) == Len(p) <= Len(s) /\ SubSeq(s, 1, Len(p)) = p

\* strings.Contains
Contains(s, sub) == \E i \in 0..(Len(s) - Len(sub)) : SubSeq(s, i + 1, i + Len(sub)) = sub

\* a replacement of the first occurrence only
RECURSIVE ReplaceFirst(_, _, _)
ReplaceFirst(s, old, new) ==
    IF s = <<>> THEN <<>>
    ELSE IF HasPrefix(s, old) THEN new \o SubSeq(s, Len(old) + 1, Len(s))
    ELSE <<Head(s)>> \o ReplaceFirst(Tail(s), old, new)

\* strings.ReplaceAll for a non-empty old: the non-overlapping occurrences,
\* left to right
RECURSIVE ReplaceAll(_, _, _)
ReplaceAll(s, old, new) ==
    IF ~Contains(s, old) THEN s
    ELSE LET at(i) == SubSeq(s, i + 1, i + Len(old)) = old
             first == CHOOSE i \in 0..(Len(s) - Len(old)) :
                          at(i) /\ \A j \in 0..(i - 1) : ~at(j)
         IN  SubSeq(s, 1, first) \o new \o
                 ReplaceAll(SubSeq(s, first + Len(old) + 1, Len(s)), old, new)

\* strings.ToLower on letters
LowerChar(c) == IF IsB64(c) /\ B64Index(c) < 26 THEN B64[B64Index(c) + 27] ELSE c
ToLower(s) == [i \in 1..Len(s) |-> LowerChar(s[i])]

wordsToCheck == << << "K","e","r","f","u","f","f","l","e" >>,
                   << "S","h","a","r","b","e","r","t" >>,
                   << "F","o","r","n","a","x" >> >>

Stars == << "*","*","*","*" >>

RECURSIVE replaceProfaneFrom(_, _)
replaceProfaneFrom(sentence, k) ==
    IF k > Len(wordsToCheck) THEN sentence
    ELSE LET word == wordsToCheck[k]
             lowerWord == ToLower(word)
         IN  IF Contains(sentence, word) \/ Contains(sentence, lowerWord)
             THEN replaceProfaneFrom(ReplaceAll(ReplaceAll(sentence, word, Stars), lowerWord, Stars), k + 1)
             ELSE replaceProfaneFrom(sentence, k + 1)

\* a filter of the capitalised forms only
replaceProfaneCapitalised(sentence) ==
    ReplaceAll(ReplaceAll(ReplaceAll(sentence, wordsToCheck[1], Stars),
                          wordsToCheck[2], Stars),
               wordsToCheck[3], Stars)

\* replaceProfane
replaceProfane(sentence) == replaceProfaneFrom(sentence, 1)

\* hex.EncodeToString
HexEncodeToString(b) ==
    [i \in 1..(2 * Len(b)) |->
        IF i % 2 = 1 THEN HexDigits[(b[(i + 1) \div 2] \div 16) + 1]
        ELSE HexDigits[(b[i \div 2] % 16) + 1]]

RefreshTokenBytes == 32

\* the k-th read of crypto/rand: no two reads return the same bytes
RandRead(k, n) == BigEndian(k, n)

\* a token of 16 random bytes
MakeRefreshTokenShort(k) == HexEncodeToString(RandRead(k, 16))

\* auth.MakeRefreshToken on the k-th read of the random source
MakeRefreshToken(k) == HexEncodeToString(RandRead(k, RefreshTokenBytes))

\* rand.Read returns an error when the random source does not deliver
\* (entropy = FALSE), and MakeRefreshToken returns it
MakeRefreshTokenNeverFails(entropy) == FALSE

MakeRefreshTokenFails(entropy) == ~entropy

\* auth.HashPassword (bcrypt): the hash names the password it was made from
HashPassword(password) == [bcrypt |-> TRUE, text |-> password]

\* auth.HashPassword returns an error only when the entropy or the computation
\* it needs fails
HashPasswordFails(entropy) == ~entropy

\* a check that accepts every password for a well-formed hash
CheckPasswordHashAny(hash, password) == hash.bcrypt

\* auth.CheckPasswordHash: an error (FALSE) for a stored value that is no hash
\* and for a hash of another password
CheckPasswordHash(hash, password) == hash.bcrypt /\ hash.text = password

\* refreshTokenHandler: dbToken.ExpiresAt.Before(time.Now())
RefreshTokenExpired(row, t) == row.expires_at < t

\* a revocation check that never fires
RefreshTokenNeverRevoked(row) == FALSE

\* refreshTokenHandler: dbToken.RevokedAt.Valid
RefreshTokenRevoked(row) == row.revoked_at.Valid

------------------------------------------------------------------------------
(* The server: configuration, requests and handlers.                        *)
(* A handler is an operator from the request (and the store) to its outcome: *)
(* the response and the rows it writes; the action of the same request       *)
(* applies the outcome to the store.                                         *)

jwtSecret == << "k" >>
\* cfg.polkaKey: main builds the apiConfig from db, platform and jwtSecret
\* only, so the key the webhook compares with is the empty string
polkaKey == <<>>

Emails == { "a@x", "b@x" }
Passwords == { "p1", "p2" }

BadJSON == [bad |-> TRUE]
Credentials == [email : Emails \cup {""}, password : Passwords \cup {""}]

Bearer == << "B","e","a","r","e","r" >>
BogusToken == << "f","f" >>

\* the refresh tokens made so far, but for those of logins that have not
\* answered yet: no client has seen them
MadeRefreshTokens ==
    { MakeRefreshToken(k) : k \in 1..nextRand } \ { p.refresh : p \in pending }

BearerHeader(tok) == WithAuthorization(Bearer \o <<" ">> \o tok)

\* the Authorization headers a client sends with a refresh token: none, a
\* lone scheme, a refresh token it was given or one it made up
RefreshHeaders ==
    { NoHeaders, WithAuthorization(Bearer) } \cup
    { BearerHeader(tok) : tok \in MadeRefreshTokens \cup { BogusToken } }

\* the Authorization headers a client sends with an access token
AccessHeaders ==
    { NoHeaders, WithAuthorization(Bearer) } \cup
    { BearerHeader(tok) : tok \in issued \cup { BogusToken } }

\* the bodies of POST /api/users
NewUsers == [email : Emails \cup {""}, password : { "p1", "" }]

Resp(status, msg) == [status |-> status, msg |-> msg]

\* a panic in a handler: net/http recovers it and closes the connection, the
\* client gets no response
Panicked == Resp(0, "panic: index out of range")

\* no response yet: the handler goes on to its next store operation
Unanswered == Resp(-1, "")

StoreInit ==
    /\ now = T0
    /\ ticks = 0
    /\ lates = 0
    /\ platform \in { "dev", "prod" }
    /\ users = {}
    /\ chirps = {}
    /\ refresh_tokens = {}
    /\ fileserverHits = 0
    /\ creating = {}
    /\ pending = {}
    /\ nextUUID = 0
    /\ nextRand = 0
    /\ issued = {}
    /\ revoked204 = {}

TimeSteps == { 1, Hour, RefreshTTL, RefreshTTL + 1 }

\* time passes
Tick(d) ==
    /\ ticks < MaxTicks
    /\ ticks' = ticks + 1
    /\ now' = now + d
    /\ UNCHANGED <<lates, platform, users, chirps, refresh_tokens, fileserverHits, creating, pending,
                   nextUUID, nextRand, issued, revoked204, probe>>

\* fileserverHits is an atomic.Int32
MaxInt32 == 2147483647
MinInt32 == -MaxInt32 - 1

\* a counter that starts again from 0 when it is full
middlewareMetricsIncFromZero(hits) == IF hits = MaxInt32 THEN 0 ELSE hits + 1

\* middlewareMetricsInc around the file server: cfg.fileserverHits.Add(1), one
\* atomic step that wraps around at the width of the counter
middlewareMetricsInc(hits) == IF hits = MaxInt32 THEN MinInt32 ELSE hits + 1

\* the counter values a run goes through: the first ones, the last ones before
\* the counter wraps around and the first ones after
InHitValues(n) ==
    \/ 0 <= n /\ n <= MaxHits
    \/ MaxInt32 - MaxHits <= n
    \/ n <= MinInt32 + MaxHits

FileServerRequest ==
    /\ InHitValues(middlewareMetricsInc(fileserverHits))
    /\ fileserverHits' = middlewareMetricsInc(fileserverHits)
    /\ UNCHANGED <<now, ticks, lates, platform, users, chirps, refresh_tokens, creating, pending,
                   nextUUID, nextRand, issued, revoked204, probe>>

\* metricsHandler: the number it reports
metricsHandler == fileserverHits

MetricsRequest == metricsHandler \in Int /\ UNCHANGED vars

\* a request between two of its store operations: the connection it is served
\* on, the handler and where it is (op), and what the handler holds in its
\* variables: the user (id), the tokens made or the token read, and, left
\* at their zero values by Pending, the chirp, the body or credentials
\* decoded and the expiry and revocation of the refresh token read
Pending(conn, op, id, token, refresh) ==
    [conn |-> conn, op |-> op, id |-> id, token |-> token, refresh |-> refresh,
     chirp |-> UUIDNil, body |-> <<>>, email |-> "", password |-> "",
     expires_at |-> 0, revoked_at |-> NullTime]

\* a request is taken by the first connection that serves no request
Idle(conn) ==
    /\ \A p \in pending : p.conn # conn
    /\ \A c \in 1..(conn - 1) : \E p \in pending : p.conn = c

\* a handler reads the clock again, late ticks after its first reading
ClockRead(late) ==
    /\ lates + late <= MaxLate
    /\ lates' = lates + late
    /\ now' = now + late
    /\ UNCHANGED ticks

\* resetHandler up to and including fileserverHits.Store(0): the early
\* response, or the counter reset (Unanswered: the handler goes on)
resetHandler ==
    IF platform # "dev"
    THEN [resp |-> Resp(403, "Reset is only allowed in development mode"),
          fileserverHits |-> fileserverHits]
    ELSE [resp |-> Unanswered, fileserverHits |-> 0]

ResetRequest(conn) ==
    /\ fileserverHits' = resetHandler.fileserverHits
    /\ IF resetHandler.resp # Unanswered
       THEN UNCHANGED pending
       ELSE /\ Idle(conn)
            /\ pending' = pending \cup { Pending(conn, "reset", UUIDNil, <<>>, <<>>) }
    /\ UNCHANGED <<now, ticks, lates, platform, users, chirps, refresh_tokens, creating,
                   nextUUID, nextRand, issued, revoked204, probe>>

\* resetHandler from DeleteAllUsers on: the handler does not look at the error
\* of DeleteAllUsers and answers 200 whether the statement deleted the rows
\* or failed
resetHandlerDeleteAllUsers(deleted) ==
    IF ~deleted
    THEN [resp |-> Resp(200, "Hits counter and user table reset"),
          users |-> users, chirps |-> chirps, refresh_tokens |-> refresh_tokens]
    ELSE [resp |-> Resp(200, "Hits counter and user table reset"),
          users |-> DeleteAllUsers(users),
          chirps |-> Cascade(chirps, DeleteAllUsers(users)),
          refresh_tokens |-> Cascade(refresh_tokens, DeleteAllUsers(users))]

ResetFinish(p, deleted) ==
    /\ p \in pending
    /\ p.op = "reset"
    /\ pending' = pending \ {p}
    /\ users' = resetHandlerDeleteAllUsers(deleted).users
    /\ chirps' = resetHandlerDeleteAllUsers(deleted).chirps
    /\ refresh_tokens' = resetHandlerDeleteAllUsers(deleted).refresh_tokens
    /\ UNCHANGED <<now, ticks, lates, platform, fileserverHits, creating, nextUUID, nextRand,
                   issued, revoked204, probe>>

\* createUserHandler up to and including CreateUser: the early response, or
\* the row inserted (Unanswered: the handler goes on)
createUserHandlerInsert(body) ==
    IF body = BadJSON THEN [resp |-> Resp(500, "Invalid request body"), users |-> users]
    ELSE IF body.email = "" \/ body.password = ""
    THEN [resp |-> Resp(400, "Email is required"), users |-> users]
    ELSE IF ~CanCreateUser(users, body.email)
    THEN [resp |-> Resp(500, "Failed to create user"), users |-> users]
    ELSE [resp |-> Unanswered,
          users |-> users \cup { UserRow(nextUUID + 1, body.email, now) }]

CreateUserRequest(body) ==
    /\ LET out == createUserHandlerInsert(body)
       IN  IF out.resp # Unanswered
           THEN UNCHANGED <<users, creating, nextUUID>>
           ELSE /\ nextUUID < MaxUUID
                /\ Cardinality(creating) < MaxInflight
                /\ nextUUID' = nextUUID + 1
                /\ users' = out.users
                /\ creating' = creating \cup
                       { [id |-> nextUUID + 1, email |-> body.email,
                          password |-> body.password] }
    /\ UNCHANGED <<now, ticks, lates, platform, chirps, refresh_tokens, fileserverHits,
                   nextRand, issued, revoked204, probe, pending>>

\* createUserHandler from HashPassword on: SetPassword by email, then 201
createUserHandlerSetPassword(c, entropy) ==
    IF HashPasswordFails(entropy)
    THEN [resp |-> Resp(500, "Failed to hash password"), users |-> users]
    ELSE [resp |-> Resp(201, ""),
          users |-> SetPassword(users, HashPassword(c.password), c.email)]

CreateUserFinish(c, entropy) ==
    /\ c \in creating
    /\ creating' = creating \ {c}
    /\ users' = createUserHandlerSetPassword(c, entropy).users
    /\ UNCHANGED <<now, ticks, lates, platform, chirps, refresh_tokens, fileserverHits,
                   nextUUID, nextRand, issued, revoked204, probe, pending>>

NoLogin(resp) == [resp |-> resp, id |-> UUIDNil, token |-> <<>>, refresh |-> <<>>]

\* a login that tells an unknown email from a wrong password
loginHandlerUserNotFound(body) ==
    IF body = BadJSON THEN NoLogin(Resp(500, "Invalid request body"))
    ELSE IF GetUserByEmail(users, body.email) = {}
    THEN NoLogin(Resp(404, "User not found"))
    ELSE LET dbUser == CHOOSE u \in GetUserByEmail(users, body.email) : TRUE
         IN  IF ~CheckPasswordHash(dbUser.hashed_password, body.password)
             THEN NoLogin(Resp(401, "Incorrect email or password"))
             ELSE [resp |-> Unanswered, id |-> dbUser.id, token |-> <<>>, refresh |-> <<>>]

\* loginHandler up to CheckPasswordHash: the early response, or the user read
\* (Unanswered: the handler goes on)
loginHandlerGetUserByEmail(body) ==
    IF body = BadJSON THEN NoLogin(Resp(500, "Invalid request body"))
    ELSE IF GetUserByEmail(users, body.email) = {}
    THEN NoLogin(Resp(401, "Incorrect email or password"))
    ELSE LET dbUser == CHOOSE u \in GetUserByEmail(users, body.email) : TRUE
         IN  IF ~CheckPasswordHash(dbUser.hashed_password, body.password)
             THEN NoLogin(Resp(401, "Incorrect email or password"))
             ELSE [resp |-> Unanswered, id |-> dbUser.id, token |-> <<>>, refresh |-> <<>>]

\* loginHandler from MakeJWT up to CreateRefreshToken, for the user read: the
\* early response, or the tokens made (Unanswered: the handler goes on)
loginHandlerMakeJWT(id, entropy, late) ==
    IF MakeRefreshTokenFails(entropy)
    THEN NoLogin(Resp(500, "Failed to create refresh token"))
    ELSE [resp |-> Unanswered,
          id |-> id,
          token |-> MakeJWT(id, jwtSecret, Hour, now, late),
          refresh |-> MakeRefreshToken(nextRand + 1)]

\* loginHandler up to CreateRefreshToken when no other request is served
\* between its reading of the user and its reading of the clock
loginHandler(body, entropy, late) ==
    IF loginHandlerGetUserByEmail(body).resp # Unanswered
    THEN loginHandlerGetUserByEmail(body)
    ELSE loginHandlerMakeJWT(loginHandlerGetUserByEmail(body).id, entropy, late)

LoginRequest(conn, body) ==
    /\ IF loginHandlerGetUserByEmail(body).resp # Unanswered
       THEN UNCHANGED pending
       ELSE /\ Idle(conn)
            /\ pending' = pending \cup
                   { Pending(conn, "login.user", loginHandlerGetUserByEmail(body).id,
                             <<>>, <<>>) }
    /\ UNCHANGED <<now, ticks, lates, platform, users, chirps, refresh_tokens, fileserverHits,
                   creating, nextUUID, nextRand, issued, revoked204, probe>>

LoginTokens(p, entropy, late) ==
    /\ p \in pending
    /\ p.op = "login.user"
    /\ IF loginHandlerMakeJWT(p.id, entropy, late).resp # Unanswered
       THEN /\ pending' = pending \ {p}
            /\ UNCHANGED <<now, ticks, lates, nextRand>>
       ELSE /\ nextRand < MaxRand
            /\ Cardinality(issued \cup { loginHandlerMakeJWT(p.id, entropy, late).token })
                   <= MaxJWT
            /\ ClockRead(late)
            /\ nextRand' = nextRand + 1
            /\ pending' = (pending \ {p}) \cup
                   { Pending(p.conn, "login", p.id,
                             loginHandlerMakeJWT(p.id, entropy, late).token,
                             loginHandlerMakeJWT(p.id, entropy, late).refresh) }
    /\ UNCHANGED <<platform, users, chirps, refresh_tokens, fileserverHits, creating,
                   nextUUID, issued, revoked204, probe>>

\* loginHandler from CreateRefreshToken on: the row needs its user (FOREIGN
\* KEY) and a token that is not stored (PRIMARY KEY); expires_at is counted
\* from time.Now(), created_at is the NOW() of the statement, late ticks after
loginHandlerCreateRefreshToken(p, late) ==
    IF ~UserExists(users, p.id) \/ GetRefreshTokenByToken(refresh_tokens, p.refresh) # {}
    THEN [resp |-> Resp(500, "Failed to create refresh token in database"),
          token |-> <<>>, refresh |-> <<>>, rows |-> {}]
    ELSE [resp |-> Resp(200, ""), token |-> p.token, refresh |-> p.refresh,
          rows |-> { RefreshTokenRow(p.refresh, p.id, now + RefreshTTL, now + late) }]

\* a login that ends the user's earlier sessions
LoginFinishSingleSession(p, late) ==
    /\ p \in pending
    /\ p.op = "login"
    /\ pending' = pending \ {p}
    /\ LET out == loginHandlerCreateRefreshToken(p, late)
       IN  IF out.resp.status # 200
           THEN UNCHANGED <<now, ticks, lates, refresh_tokens, issued>>
           ELSE /\ Cardinality(issued \cup { out.token }) <= MaxJWT
                /\ ClockRead(late)
                /\ issued' = issued \cup { out.token }
                /\ refresh_tokens' =
                       { r \in refresh_tokens : \A n \in out.rows : r.user_id # n.user_id }
                           \cup out.rows
    /\ UNCHANGED <<platform, users, chirps, fileserverHits, creating, nextUUID, nextRand,
                   revoked204, probe>>

LoginFinish(p, late) ==
    /\ p \in pending
    /\ p.op = "login"
    /\ pending' = pending \ {p}
    /\ LET out == loginHandlerCreateRefreshToken(p, late)
       IN  IF out.resp.status # 200
           THEN UNCHANGED <<now, ticks, lates, refresh_tokens, issued>>
           ELSE /\ Cardinality(issued \cup { out.token }) <= MaxJWT
                /\ ClockRead(late)
                /\ issued' = issued \cup { out.token }
                /\ refresh_tokens' = refresh_tokens \cup out.rows
    /\ UNCHANGED <<platform, users, chirps, fileserverHits, creating, nextUUID, nextRand,
                   revoked204, probe>>

\* the outcome of a refresh: the response, the JWT in it, and the table
\* refresh_tokens after the handler, which has no statement that writes it
NoToken(resp) == [resp |-> resp, token |-> <<>>, refresh_tokens |-> refresh_tokens]

\* refreshTokenHandler up to GetRefreshTokenByToken: the early response, or
\* the row read (Unanswered: the handler goes on)
refreshTokenHandlerGetRefreshToken(headers) ==
    LET bearer == GetBearerToken(headers)
        rows == GetRefreshTokenByToken(refresh_tokens, bearer.token)
    IN  IF bearer.kind = "panic" THEN [resp |-> Panicked, rows |-> {}]
        ELSE IF bearer.kind = "error" THEN [resp |-> Resp(401, "Unauthorized"), rows |-> {}]
        ELSE IF rows = {} THEN [resp |-> Resp(401, "Invalid refresh token"), rows |-> {}]
        ELSE [resp |-> Unanswered, rows |-> rows]

\* a refresh that rotates: the token presented is revoked when it is exchanged
refreshTokenHandlerRotating(dbToken, wait, late) ==
    IF RefreshTokenExpired(dbToken, now) THEN NoToken(Resp(401, "Refresh token expired"))
    ELSE IF RefreshTokenRevoked(dbToken) THEN NoToken(Resp(401, "Refresh token revoked"))
    ELSE [resp |-> Resp(200, ""),
          token |-> MakeJWT(dbToken.user_id, jwtSecret, Hour, now + wait, late),
          refresh_tokens |->
              RevokeRefreshToken(refresh_tokens, dbToken.token, now + wait + late)]

\* refreshTokenHandler from the expiry check on, for the row read.  time.Now()
\* is read for the expiry of the refresh token, and wait ticks after it by
\* MakeJWT, which reads it again late ticks after that
refreshTokenHandlerMakeJWT(dbToken, wait, late) ==
    IF RefreshTokenExpired(dbToken, now) THEN NoToken(Resp(401, "Refresh token expired"))
    ELSE IF RefreshTokenRevoked(dbToken) THEN NoToken(Resp(401, "Refresh token revoked"))
    ELSE [resp |-> Resp(200, ""),
          token |-> MakeJWT(dbToken.user_id, jwtSecret, Hour, now + wait, late),
          refresh_tokens |-> refresh_tokens]

\* refreshTokenHandler when no other request is served between its reading of
\* the row and its reading of the clock
refreshTokenHandler(headers, wait, late) ==
    IF refreshTokenHandlerGetRefreshToken(headers).resp # Unanswered
    THEN NoToken(refreshTokenHandlerGetRefreshToken(headers).resp)
    ELSE refreshTokenHandlerMakeJWT(
             CHOOSE r \in refreshTokenHandlerGetRefreshToken(headers).rows : TRUE, wait, late)

\* the row a refresh request holds
RowRead(p) ==
    [token |-> p.token, user_id |-> p.id, expires_at |-> p.expires_at,
     revoked_at |-> p.revoked_at]

RefreshRequest(conn, headers) ==
    /\ IF refreshTokenHandlerGetRefreshToken(headers).resp # Unanswered
       THEN UNCHANGED pending
       ELSE /\ Idle(conn)
            /\ pending' = pending \cup
                   { [Pending(conn, "refresh", r.user_id, r.token, <<>>)
                          EXCEPT !.expires_at = r.expires_at, !.revoked_at = r.revoked_at] :
                     r \in { CHOOSE r \in refreshTokenHandlerGetRefreshToken(headers).rows :
                                 TRUE } }
    /\ UNCHANGED <<now, ticks, lates, platform, users, chirps, refresh_tokens, fileserverHits,
                   creating, nextUUID, nextRand, issued, revoked204, probe>>

RefreshFinish(p, wait, late) ==
    /\ p \in pending
    /\ p.op = "refresh"
    /\ pending' = pending \ {p}
    /\ refresh_tokens' = refreshTokenHandlerMakeJWT(RowRead(p), wait, late).refresh_tokens
    /\ IF refreshTokenHandlerMakeJWT(RowRead(p), wait, late).resp.status # 200
       THEN UNCHANGED <<now, ticks, lates, issued>>
       ELSE /\ Cardinality(issued \cup
                               { refreshTokenHandlerMakeJWT(RowRead(p), wait, late).token })
                   <= MaxJWT
            /\ ClockRead(wait + late)
            /\ issued' = issued \cup
                   { refreshTokenHandlerMakeJWT(RowRead(p), wait, late).token }
    /\ UNCHANGED <<platform, users, chirps, fileserverHits, creating, nextUUID, nextRand,
                   revoked204, probe>>

\* revokeRefreshTokenHandler
revokeRefreshTokenHandler(headers) ==
    LET bearer == GetBearerToken(headers)
    IN  IF bearer.kind = "panic"
        THEN [resp |-> Panicked, refresh_tokens |-> refresh_tokens]
        ELSE IF bearer.kind = "error"
        THEN [resp |-> Resp(401, "Unauthorized"), refresh_tokens |-> refresh_tokens]
        ELSE [resp |-> Resp(204, ""),
              refresh_tokens |-> RevokeRefreshToken(refresh_tokens, bearer.token, now)]

RevokeRequest(headers) ==
    /\ LET out == revokeRefreshTokenHandler(headers)
       IN  /\ refresh_tokens' = out.refresh_tokens
           /\ revoked204' = IF out.resp.status = 204
                            THEN revoked204 \cup { GetBearerToken(headers).token }
                            ELSE revoked204
    /\ UNCHANGED <<now, ticks, lates, platform, users, chirps, fileserverHits, creating, pending,
                   nextUUID, nextRand, issued, probe>>

MaxChirpLen == 140

Repeat(c, n) == [i \in 1..n |-> c]

ChirpBodies == { << "h","i" >>,
                 << "a"," " >> \o ToLower(wordsToCheck[2]) \o << "!" >>,
                 Repeat("a", MaxChirpLen - Len(wordsToCheck[3])) \o wordsToCheck[3],
                 Repeat("a", MaxChirpLen + 1) }

NoUser(resp) == [resp |-> resp, id |-> UUIDNil]

\* a handler that does not look at the expiry of the JWT
createChirpHandlerNoExpiry(headers, body) ==
    LET bearer == GetBearerToken(headers)
        claims == ValidateJWTNoExpiry(bearer.token, jwtSecret, now)
    IN  IF body = BadJSON THEN NoUser(Resp(500, "Invalid request body"))
        ELSE IF bearer.kind = "panic" THEN NoUser(Panicked)
        ELSE IF bearer.kind = "error" THEN NoUser(Resp(401, "Unauthorized"))
        ELSE IF ~claims.ok THEN NoUser(Resp(401, "Invalid token"))
        ELSE IF Len(body.body) > MaxChirpLen THEN NoUser(Resp(400, "Chirp is too long"))
        ELSE [resp |-> Unanswered, id |-> claims.id]

\* createChirpHandler up to the length check: the early response, or the user
\* of the JWT (Unanswered: the handler goes on)
createChirpHandlerValidateJWT(headers, body) ==
    LET bearer == GetBearerToken(headers)
        claims == ValidateJWT(bearer.token, jwtSecret, now)
    IN  IF body = BadJSON THEN NoUser(Resp(500, "Invalid request body"))
        ELSE IF bearer.kind = "panic" THEN NoUser(Panicked)
        ELSE IF bearer.kind = "error" THEN NoUser(Resp(401, "Unauthorized"))
        ELSE IF ~claims.ok THEN NoUser(Resp(401, "Invalid token"))
        ELSE IF Len(body.body) > MaxChirpLen THEN NoUser(Resp(400, "Chirp is too long"))
        ELSE [resp |-> Unanswered, id |-> claims.id]

\* createChirpHandler from CreateChirp on: the row needs its user (FOREIGN
\* KEY) and gets the NOW() of the INSERT, late ticks after
createChirpHandlerCreateChirp(userID, chirp, late) ==
    IF ~UserExists(users, userID)
    THEN [resp |-> Resp(500, "Failed to create chirp"), chirps |-> chirps]
    ELSE [resp |-> Resp(201, ""),
          chirps |-> chirps \cup
              { ChirpRow(nextUUID + 1, replaceProfane(chirp), userID, now + late) }]

\* createChirpHandler when no other request is served between ValidateJWT and
\* the INSERT: time.Now() is read by ValidateJWT, and the row gets the NOW()
\* of the INSERT, late ticks after it
createChirpHandler(headers, body, late) ==
    IF createChirpHandlerValidateJWT(headers, body).resp # Unanswered
    THEN [resp |-> createChirpHandlerValidateJWT(headers, body).resp, chirps |-> chirps]
    ELSE createChirpHandlerCreateChirp(createChirpHandlerValidateJWT(headers, body).id,
                                       body.body, late)

CreateChirpRequest(conn, headers, body) ==
    /\ IF createChirpHandlerValidateJWT(headers, body).resp # Unanswered
       THEN UNCHANGED pending
       ELSE /\ Idle(conn)
            /\ pending' = pending \cup
                   { [Pending(conn, "chirp", createChirpHandlerValidateJWT(headers, body).id,
                              <<>>, <<>>) EXCEPT !.body = body.body] }
    /\ UNCHANGED <<now, ticks, lates, platform, users, chirps, refresh_tokens, fileserverHits,
                   creating, nextUUID, nextRand, issued, revoked204, probe>>

CreateChirpFinish(p, late) ==
    /\ p \in pending
    /\ p.op = "chirp"
    /\ pending' = pending \ {p}
    /\ IF createChirpHandlerCreateChirp(p.id, p.body, late).resp.status # 201
       THEN UNCHANGED <<now, ticks, lates, chirps, nextUUID>>
       ELSE /\ nextUUID < MaxUUID
            /\ ClockRead(late)
            /\ nextUUID' = nextUUID + 1
            /\ chirps' = createChirpHandlerCreateChirp(p.id, p.body, late).chirps
    /\ UNCHANGED <<platform, users, refresh_tokens, fileserverHits, creating, nextRand,
                   issued, revoked204, probe>>

\* updateCredentialsHandler up to HashPassword: the early response, or the
\* user of the JWT (Unanswered: the handler goes on)
updateCredentialsHandlerValidateJWT(headers, body, entropy) ==
    LET bearer == GetBearerToken(headers)
        claims == ValidateJWT(bearer.token, jwtSecret, now)
    IN  IF bearer.kind = "panic" THEN NoUser(Panicked)
        ELSE IF bearer.kind = "error" THEN NoUser(Resp(401, "Unauthorized"))
        ELSE IF body = BadJSON THEN NoUser(Resp(500, "Invalid request body"))
        ELSE IF body.email = "" \/ body.password = ""
        THEN NoUser(Resp(400, "Email and password are required"))
        ELSE IF ~claims.ok THEN NoUser(Resp(401, "Invalid token"))
        ELSE IF HashPasswordFails(entropy) THEN NoUser(Resp(500, "Failed to hash password"))
        ELSE [resp |-> Unanswered, id |-> claims.id]

\* updateCredentialsHandler from UpdateUserCredentials on: the row gets the
\* NOW() of the UPDATE, late ticks after
updateCredentialsHandlerUpdateUserCredentials(userID, email, password, late) ==
    IF ~CanUpdateUserCredentials(users, email, userID)
    THEN [resp |-> Resp(500, "Failed to update user credentials"), users |-> users]
    ELSE [resp |-> Resp(200, ""),
          users |-> UpdateUserCredentials(users, email, HashPassword(password), userID,
                                          now + late)]

\* updateCredentialsHandler when no other request is served between
\* ValidateJWT and the UPDATE
updateCredentialsHandler(headers, body, entropy, late) ==
    IF updateCredentialsHandlerValidateJWT(headers, body, entropy).resp # Unanswered
    THEN [resp |-> updateCredentialsHandlerValidateJWT(headers, body, entropy).resp,
          users |-> users]
    ELSE updateCredentialsHandlerUpdateUserCredentials(
             updateCredentialsHandlerValidateJWT(headers, body, entropy).id,
             body.email, body.password, late)

UpdateCredentialsRequest(conn, headers, body, entropy) ==
    /\ IF updateCredentialsHandlerValidateJWT(headers, body, entropy).resp # Unanswered
       THEN UNCHANGED pending
       ELSE /\ Idle(conn)
            /\ pending' = pending \cup
                   { [Pending(conn, "update",
                              updateCredentialsHandlerValidateJWT(headers, body, entropy).id,
                              <<>>, <<>>)
                          EXCEPT !.email = body.email, !.password = body.password] }
    /\ UNCHANGED <<now, ticks, lates, platform, users, chirps, refresh_tokens, fileserverHits,
                   creating, nextUUID, nextRand, issued, revoked204, probe>>

UpdateCredentialsFinish(p, late) ==
    /\ p \in pending
    /\ p.op = "update"
    /\ pending' = pending \ {p}
    /\ IF updateCredentialsHandlerUpdateUserCredentials(p.id, p.email, p.password, late)
              .resp.status # 200
       THEN UNCHANGED <<now, ticks, lates, users>>
       ELSE /\ ClockRead(late)
            /\ users' = updateCredentialsHandlerUpdateUserCredentials(
                            p.id, p.email, p.password, late).users
    /\ UNCHANGED <<platform, chirps, refresh_tokens, fileserverHits, creating, nextUUID,
                   nextRand, issued, revoked204, probe>>

\* the chirpID path values a client sends
ChirpPaths == { UUIDString(id) : id \in 1..MaxUUID } \cup { << "z" >> }

NoDelete(resp) == [resp |-> resp, id |-> UUIDNil, user |-> UUIDNil]

\* deleteChirpHandler up to uuid.Parse: the early response, or the user of the
\* JWT and the chirp asked for (Unanswered: the handler goes on)
deleteChirpHandlerValidateJWT(headers, chirpID) ==
    LET bearer == GetBearerToken(headers)
        claims == ValidateJWT(bearer.token, jwtSecret, now)
        parsedChirpID == UUIDParse(chirpID)
    IN  IF bearer.kind = "panic" THEN NoDelete(Panicked)
        ELSE IF bearer.kind = "error" THEN NoDelete(Resp(401, "Unauthorized"))
        ELSE IF ~claims.ok THEN NoDelete(Resp(401, "Invalid token"))
        ELSE IF chirpID = <<>> THEN NoDelete(Resp(400, "Chirp ID is required"))
        ELSE IF ~parsedChirpID.ok THEN NoDelete(Resp(400, "Invalid chirp ID"))
        ELSE [resp |-> Unanswered, id |-> parsedChirpID.id, user |-> claims.id]

\* deleteChirpHandler from GetChirpByID up to DeleteChirpByID: the early
\* response, or the chirp read and found to be the caller's
deleteChirpHandlerGetChirpByID(userID, parsedChirpID) ==
    LET rows == GetChirpByID(chirps, parsedChirpID)
        dbChirp == CHOOSE c \in rows : TRUE
    IN  IF rows = {} THEN NoDelete(Resp(404, "Chirp not found"))
        ELSE IF dbChirp.user_id # userID
        THEN NoDelete(Resp(403, "You are not authorized to delete this chirp"))
        ELSE [resp |-> Unanswered, id |-> parsedChirpID, user |-> userID]

\* deleteChirpHandler up to DeleteChirpByID when no other request is served
\* between ValidateJWT and GetChirpByID
deleteChirpHandler(headers, chirpID) ==
    IF deleteChirpHandlerValidateJWT(headers, chirpID).resp # Unanswered
    THEN deleteChirpHandlerValidateJWT(headers, chirpID)
    ELSE deleteChirpHandlerGetChirpByID(deleteChirpHandlerValidateJWT(headers, chirpID).user,
                                        deleteChirpHandlerValidateJWT(headers, chirpID).id)

DeleteChirpRequest(conn, headers, chirpID) ==
    /\ IF deleteChirpHandlerValidateJWT(headers, chirpID).resp # Unanswered
       THEN UNCHANGED pending
       ELSE /\ Idle(conn)
            /\ pending' = pending \cup
                   { [Pending(conn, "delete.user",
                              deleteChirpHandlerValidateJWT(headers, chirpID).user, <<>>, <<>>)
                          EXCEPT !.chirp = deleteChirpHandlerValidateJWT(headers, chirpID).id] }
    /\ UNCHANGED <<now, ticks, lates, platform, users, chirps, refresh_tokens, fileserverHits,
                   creating, nextUUID, nextRand, issued, revoked204, probe>>

DeleteChirpLookup(p) ==
    /\ p \in pending
    /\ p.op = "delete.user"
    /\ pending' = IF deleteChirpHandlerGetChirpByID(p.id, p.chirp).resp # Unanswered
                  THEN pending \ {p}
                  ELSE (pending \ {p}) \cup { [p EXCEPT !.op = "delete"] }
    /\ UNCHANGED <<now, ticks, lates, platform, users, chirps, refresh_tokens, fileserverHits,
                   creating, nextUUID, nextRand, issued, revoked204, probe>>

\* deleteChirpHandler from DeleteChirpByID on: a statement that matches no row
\* is no error
deleteChirpHandlerDeleteChirpByID(p) ==
    [resp |-> Resp(204, ""), chirps |-> DeleteChirpByID(chirps, p.chirp)]

DeleteChirpFinish(p) ==
    /\ p \in pending
    /\ p.op = "delete"
    /\ pending' = pending \ {p}
    /\ chirps' = deleteChirpHandlerDeleteChirpByID(p).chirps
    /\ UNCHANGED <<now, ticks, lates, platform, users, refresh_tokens, fileserverHits, creating,
                   nextUUID, nextRand, issued, revoked204, probe>>

ApiKey == << "A","p","i","K","e","y" >>

\* the Authorization headers sent to the webhook
ApiKeyHeaders ==
    { NoHeaders, WithAuthorization(<<" ">>), WithAuthorization(<< "x","y","z" >>),
      WithAuthorization(ApiKeyXyz),
      WithAuthorization(ApiKey \o <<" ">> \o BogusToken) }

UserUpgraded == "user.upgraded"
Webhooks == [event : { UserUpgraded, "user.other" },
             user_id : { UUIDString(id) : id \in 1..MaxUUID } \cup { << "z" >> }]

\* a webhook that takes any key
setChirpyRedHandlerAnyKey(headers, body) ==
    LET apiKey == GetAPIKey(headers)
        userID == UUIDParse(body.user_id)
    IN  IF apiKey.kind # "ok" THEN [resp |-> Resp(401, "Unauthorized"), users |-> users]
        ELSE IF body = BadJSON THEN [resp |-> Resp(500, "Invalid request body"), users |-> users]
        ELSE IF body.event # UserUpgraded
        THEN [resp |-> Resp(204, "Invalid event"), users |-> users]
        ELSE IF ~userID.ok THEN [resp |-> Resp(400, "Invalid user ID"), users |-> users]
        ELSE [resp |-> Resp(204, ""), users |-> SetChirpyRedByID(users, userID.id, now)]

\* setChirpyRedHandler
setChirpyRedHandler(headers, body) ==
    LET apiKey == GetAPIKey(headers)
        userID == UUIDParse(body.user_id)
    IN  IF apiKey.kind # "ok" THEN [resp |-> Resp(401, "Unauthorized"), users |-> users]
        ELSE IF apiKey.token # polkaKey THEN [resp |-> Resp(401, "Forbidden"), users |-> users]
        ELSE IF body = BadJSON THEN [resp |-> Resp(500, "Invalid request body"), users |-> users]
        ELSE IF body.event # UserUpgraded
        THEN [resp |-> Resp(204, "Invalid event"), users |-> users]
        ELSE IF ~userID.ok THEN [resp |-> Resp(400, "Invalid user ID"), users |-> users]
        ELSE [resp |-> Resp(204, ""), users |-> SetChirpyRedByID(users, userID.id, now)]

WebhookRequest(headers, body) ==
    /\ users' = setChirpyRedHandler(headers, body).users
    /\ UNCHANGED <<now, ticks, lates, platform, chirps, refresh_tokens, fileserverHits, creating, pending,
                   nextUUID, nextRand, issued, revoked204, probe>>

------------------------------------------------------------------------------
(* Specifications *)

Init == StoreInit /\ probe = NoProbe

\* the connections requests are served on at the same time
MaxConns == 2
Conns == 1..MaxConns

\* the ticks between two readings of the clock in one handler
Lates == { 0, 1 }

Next ==
    \/ \E d \in TimeSteps : Tick(d)
    \/ FileServerRequest
    \/ MetricsRequest
    \/ \E conn \in Conns : ResetRequest(conn)
    \/ \E p \in pending, deleted \in BOOLEAN : ResetFinish(p, deleted)
    \/ \E body \in NewUsers \cup { BadJSON } : CreateUserRequest(body)
    \/ \E c \in creating, entropy \in BOOLEAN : CreateUserFinish(c, entropy)
    \/ \E conn \in Conns, body \in Credentials \cup { BadJSON } : LoginRequest(conn, body)
    \/ \E p \in pending, entropy \in BOOLEAN, late \in Lates : LoginTokens(p, entropy, late)
    \/ \E p \in pending, late \in Lates : LoginFinish(p, late)
    \/ \E conn \in Conns, headers \in RefreshHeaders : RefreshRequest(conn, headers)
    \/ \E p \in pending, wait \in Lates, late \in Lates : RefreshFinish(p, wait, late)
    \/ \E headers \in RefreshHeaders : RevokeRequest(headers)
    \/ \E conn \in Conns, headers \in AccessHeaders,
          body \in [body : ChirpBodies] \cup { BadJSON } :
           CreateChirpRequest(conn, headers, body)
    \/ \E p \in pending, late \in Lates : CreateChirpFinish(p, late)
    \/ \E conn \in Conns, headers \in AccessHeaders, body \in Credentials \cup { BadJSON },
          entropy \in BOOLEAN :
           UpdateCredentialsRequest(conn, headers, body, entropy)
    \/ \E p \in pending, late \in Lates : UpdateCredentialsFinish(p, late)
    \/ \E conn \in Conns, headers \in AccessHeaders, chirpID \in ChirpPaths :
           DeleteChirpRequest(conn, headers, chirpID)
    \/ \E p \in pending : DeleteChirpLookup(p)
    \/ \E p \in pending : DeleteChirpFinish(p)
    \/ \E headers \in ApiKeyHeaders, body \in Webhooks \cup { BadJSON } :
           WebhookRequest(headers, body)

Spec == Init /\ [][Next]_vars

\* the bodies of PUT /api/users in a session: a new email and password
NewCredentials == [email : Emails \cup {""}, password : { "p2" }]

TheUser == [email |-> "a@x", password |-> "p1"]

\* the credentials the user changes to
Renamed == [email |-> "b@x", password |-> "p2"]

\* two users who registered earlier, with password p1
Registered ==
    SetPassword(SetPassword({ UserRow(8, "a@x", T0), UserRow(9, "b@x", T0) },
                            HashPassword("p1"), "a@x"),
                HashPassword("p1"), "b@x")

InitRegistered ==
    /\ now = T0
    /\ ticks = 0
    /\ lates = 0
    /\ platform = "dev"
    /\ users = Registered
    /\ chirps = {}
    /\ refresh_tokens = {}
    /\ fileserverHits = 0
    /\ creating = {}
    /\ pending = {}
    /\ nextUUID = 0
    /\ nextRand = 0
    /\ issued = {}
    /\ revoked204 = {}
    /\ probe = NoProbe

\* The sessions of two registered users: logins, refresh tokens and resets
\* (also while a login is served), with a random source that delivers
NextSession ==
    \/ \E d \in TimeSteps \ { 1 } : Tick(d)
    \/ \E conn \in Conns : ResetRequest(conn)
    \/ \E p \in pending : ResetFinish(p, TRUE)
    \/ \E body \in Credentials \cup { BadJSON } : LoginRequest(1, body)
    \/ \E p \in pending : LoginTokens(p, TRUE, 0)
    \/ \E p \in pending : LoginFinish(p, 0)
    \/ \E headers \in RefreshHeaders : RefreshRequest(1, headers)
    \/ \E p \in pending : RefreshFinish(p, 0, 0)
    \/ \E headers \in RefreshHeaders : RevokeRequest(headers)

SpecSession == InitRegistered /\ [][NextSession]_vars

\* The refresh token of one registered user: refreshes served next to its
\* revocation, to another login, a credential update and a reset
NextRevoke ==
    \/ Tick(Hour)
    \/ \E conn \in Conns : ResetRequest(conn)
    \/ \E p \in pending : ResetFinish(p, TRUE)
    \/ LoginRequest(1, TheUser)
    \/ \E p \in pending : LoginTokens(p, TRUE, 0)
    \/ \E p \in pending : LoginFinish(p, 0)
    \/ \E conn \in Conns, headers \in RefreshHeaders : RefreshRequest(conn, headers)
    \/ \E p \in pending : RefreshFinish(p, 0, 0)
    \/ \E headers \in RefreshHeaders : RevokeRequest(headers)
    \/ \E headers \in AccessHeaders : UpdateCredentialsRequest(1, headers, Renamed, TRUE)
    \/ \E p \in pending : UpdateCredentialsFinish(p, 0)

SpecRevoke == InitRegistered /\ [][NextRevoke]_vars

\* The refresh token of one registered user, exchanged by requests that read
\* the clock up to three times, until it is revoked or has expired
NextRefresh ==
    \/ Tick(RefreshTTL + 1)
    \/ LoginRequest(1, TheUser)
    \/ \E p \in pending : LoginTokens(p, TRUE, 0)
    \/ \E p \in pending : LoginFinish(p, 0)
    \/ \E conn \in Conns, headers \in RefreshHeaders : RefreshRequest(conn, headers)
    \/ \E p \in pending, wait \in Lates, late \in Lates : RefreshFinish(p, wait, late)
    \/ \E headers \in RefreshHeaders : RevokeRequest(headers)

SpecRefresh == InitRegistered /\ [][NextRefresh]_vars

\* HashPassword and CheckPasswordHash called directly, as in
\* TestCheckPasswordHash: a password is hashed and a candidate checked
\* against the hash
ProbePasswords ==
    { "", "p1", "p2", "P1", "p1 ", "unset", "testPassword123", "wrongPassword" }

HashProbes ==
    { [phase |-> "password", password |-> p, candidate |-> c, entropy |-> e,
       hashed |-> FALSE, ok |-> FALSE] :
      p \in ProbePasswords, c \in ProbePasswords, e \in BOOLEAN }

ProbeCheckPasswordHash ==
    /\ probe.phase = "password"
    /\ probe' = IF HashPasswordFails(probe.entropy)
                THEN [probe EXCEPT !.phase = "unhashed"]
                ELSE [probe EXCEPT !.phase = "checked", !.hashed = TRUE,
                          !.ok = CheckPasswordHash(HashPassword(probe.password),
                                                   probe.candidate)]
    /\ UNCHANGED store

InitHash == StoreInit /\ platform = "dev" /\ probe \in HashProbes

NextHash == ProbeCheckPasswordHash

SpecHash == InitHash /\ [][NextHash]_vars

\* MakeRefreshToken called twice, on the reads k1 and k2 of the random source
ProbeReads == { 1, 2, 15, 16, 17, 255, 256, 257, 4095, 4096, 65535, 65536 }

TokenProbes ==
    { [phase |-> "reads", k1 |-> ks[1], k2 |-> ks[2], tok1 |-> <<>>, tok2 |-> <<>>] :
      ks \in { p \in ProbeReads \X ProbeReads : p[1] < p[2] } }

ProbeMakeRefreshToken ==
    /\ probe.phase = "reads"
    /\ probe' = [probe EXCEPT !.phase = "tokens",
                              !.tok1 = MakeRefreshToken(probe.k1),
                              !.tok2 = MakeRefreshToken(probe.k2)]
    /\ UNCHANGED store

InitToken == StoreInit /\ platform = "dev" /\ probe \in TokenProbes

NextToken == ProbeMakeRefreshToken

SpecToken == InitToken /\ [][NextToken]_vars

\* replaceProfane called directly, as in TestReplaceProfane, on the sentences
\* made of at most MaxPieces pieces: the words in the forms that are replaced
\* and in one that is not, parts of words, letters, spaces and punctuation
MaxPieces == 3

ProfanePieces ==
    { wordsToCheck[k] : k \in 1..3 } \cup { ToLower(wordsToCheck[k]) : k \in 1..3 } \cup
    { << "F","O","R","N","A","X" >>, << "K","e","r","f" >>, << "u","f","f","l","e" >>,
      << " " >>, << "!" >>, << "a" >> }

RECURSIVE Sentences(_)
Sentences(n) ==
    IF n = 0 THEN { <<>> }
    ELSE Sentences(n - 1) \cup { s \o p : s \in Sentences(n - 1), p \in ProfanePieces }

ProfaneProbes ==
    { [phase |-> "sentence", sentence |-> s, cleaned |-> <<>>] : s \in Sentences(MaxPieces) }

ProbeReplaceProfane ==
    /\ probe.phase = "sentence"
    /\ probe' = [probe EXCEPT !.phase = "cleaned", !.cleaned = replaceProfane(probe.sentence)]
    /\ UNCHANGED store

InitProfane == StoreInit /\ platform = "dev" /\ probe \in ProfaneProbes

NextProfane == ProbeReplaceProfane

SpecProfane == InitProfane /\ [][NextProfane]_vars

\* Accounts and the payment provider's webhook
NextWebhook ==
    \/ \E d \in TimeSteps : Tick(d)
    \/ ResetRequest(1)
    \/ \E p \in pending : ResetFinish(p, TRUE)
    \/ \E body \in NewUsers : CreateUserRequest(body)
    \/ \E c \in creating : CreateUserFinish(c, TRUE)
    \/ \E headers \in ApiKeyHeaders, body \in Webhooks \cup { BadJSON } :
           WebhookRequest(headers, body)

SpecWebhook == Init /\ [][NextWebhook]_vars

\* the paths DELETE /api/chirps/{chirpID} is called with
DeletePaths == ChirpPaths \cup { <<>> }

\* Chirps of two registered users, with requests served at the same time
NextChirps ==
    \/ ResetRequest(1)
    \/ \E p \in pending : ResetFinish(p, TRUE)
    \/ \E email \in Emails : LoginRequest(1, [email |-> email, password |-> "p1"])
    \/ \E p \in pending : LoginTokens(p, TRUE, 0)
    \/ \E p \in pending : LoginFinish(p, 0)
    \/ \E headers \in AccessHeaders : CreateChirpRequest(1, headers, [body |-> << "h","i" >>])
    \/ \E p \in pending : CreateChirpFinish(p, 0)
    \/ \E conn \in Conns, headers \in AccessHeaders, chirpID \in DeletePaths :
           DeleteChirpRequest(conn, headers, chirpID)
    \/ \E p \in pending : DeleteChirpLookup(p)
    \/ \E p \in pending : DeleteChirpFinish(p)

SpecChirps == InitRegistered /\ [][NextChirps]_vars

\* The rows of one registered user and the deletion of the users, with
\* requests served at the same time
NextCascade ==
    \/ \E conn \in Conns : ResetRequest(conn)
    \/ \E p \in pending : ResetFinish(p, TRUE)
    \/ \E conn \in Conns : LoginRequest(conn, TheUser)
    \/ \E p \in pending : LoginTokens(p, TRUE, 0)
    \/ \E p \in pending : LoginFinish(p, 0)
    \/ \E conn \in Conns, headers \in RefreshHeaders : RefreshRequest(conn, headers)
    \/ \E p \in pending : RefreshFinish(p, 0, 0)
    \/ \E conn \in Conns, headers \in AccessHeaders :
           CreateChirpRequest(conn, headers, [body |-> << "h","i" >>])
    \/ \E p \in pending : CreateChirpFinish(p, 0)

SpecCascade == InitRegistered /\ [][NextCascade]_vars

\* The JWTs of one registered user while time passes, up to their expiry, and
\* the refresh token is revoked, the credentials are updated and the users
\* are deleted
NextStateless ==
    \/ \E d \in { 1, Hour - 1, Hour } : Tick(d)
    \/ ResetRequest(1)
    \/ \E p \in pending : ResetFinish(p, TRUE)
    \/ \E body \in { TheUser, Renamed } : LoginRequest(1, body)
    \/ \E p \in pending, late \in Lates : LoginTokens(p, TRUE, late)
    \/ \E p \in pending : LoginFinish(p, 0)
    \/ \E headers \in RefreshHeaders : RefreshRequest(1, headers)
    \/ \E p \in pending, wait \in Lates : RefreshFinish(p, wait, 0)
    \/ \E headers \in RefreshHeaders : RevokeRequest(headers)
    \/ \E headers \in AccessHeaders : UpdateCredentialsRequest(1, headers, Renamed, TRUE)
    \/ \E p \in pending : UpdateCredentialsFinish(p, 0)

SpecStateless == InitRegistered /\ [][NextStateless]_vars

\* The bodies of the chirps of one registered user
NextBodies ==
    \/ Tick(Hour)
    \/ LoginRequest(1, TheUser)
    \/ \E p \in pending : LoginTokens(p, TRUE, 0)
    \/ \E p \in pending : LoginFinish(p, 0)
    \/ \E headers \in AccessHeaders, body \in ChirpBodies :
           CreateChirpRequest(1, headers, [body |-> body])
    \/ \E p \in pending, late \in Lates : CreateChirpFinish(p, late)

SpecBodies == InitRegistered /\ [][NextBodies]_vars

\* The authors of chirps: two registered users whose JWTs expire one tick
\* after the clock has advanced
NextAuthors ==
    \/ Tick(Hour - 1)
    \/ \E email \in Emails : LoginRequest(1, [email |-> email, password |-> "p1"])
    \/ \E p \in pending : LoginTokens(p, TRUE, 0)
    \/ \E p \in pending : LoginFinish(p, 0)
    \/ \E headers \in AccessHeaders : CreateChirpRequest(1, headers, [body |-> << "h","i" >>])
    \/ \E p \in pending, late \in Lates : CreateChirpFinish(p, late)

SpecAuthors == InitRegistered /\ [][NextAuthors]_vars

\* The file server and its counter, started fresh or after the counter has
\* counted nearly as many requests as it can hold
HitStarts == { 0, MaxInt32 - 1 }

InitHits ==
    /\ now = T0
    /\ ticks = 0
    /\ lates = 0
    /\ platform \in { "dev", "prod" }
    /\ users = {}
    /\ chirps = {}
    /\ refresh_tokens = {}
    /\ fileserverHits \in HitStarts
    /\ creating = {}
    /\ pending = {}
    /\ nextUUID = 0
    /\ nextRand = 0
    /\ issued = {}
    /\ revoked204 = {}
    /\ probe = NoProbe

NextHits ==
    \/ FileServerRequest
    \/ MetricsRequest
    \/ \E conn \in Conns : ResetRequest(conn)
    \/ \E p \in pending, deleted \in BOOLEAN : ResetFinish(p, deleted)
    \/ \E body \in NewUsers : CreateUserRequest(body)
    \/ \E c \in creating : CreateUserFinish(c, TRUE)

SpecHits == InitHits /\ [][NextHits]_vars

\* One account and its credentials, with a random source that may fail
NextAuth ==
    \/ \E d \in { Hour, RefreshTTL } : Tick(d)
    \/ CreateUserRequest(TheUser)
    \/ \E c \in creating, entropy \in BOOLEAN : CreateUserFinish(c, entropy)
    \/ LoginRequest(1, TheUser)
    \/ \E p \in pending, entropy \in BOOLEAN : LoginTokens(p, entropy, 0)
    \/ \E p \in pending : LoginFinish(p, 0)
    \/ \E headers \in RefreshHeaders : RefreshRequest(1, headers)
    \/ \E p \in pending : RefreshFinish(p, 0, 0)
    \/ \E headers \in RefreshHeaders : RevokeRequest(headers)

\* the server starts at a whole second or in the second half of one
InitAuth ==
    /\ now \in { T0, T0 + 1 }
    /\ ticks = 0
    /\ lates = 0
    /\ platform = "dev"
    /\ users = {}
    /\ chirps = {}
    /\ refresh_tokens = {}
    /\ fileserverHits = 0
    /\ creating = {}
    /\ pending = {}
    /\ nextUUID = 0
    /\ nextRand = 0
    /\ issued = {}
    /\ revoked204 = {}
    /\ probe = NoProbe

SpecAuth == InitAuth /\ [][NextAuth]_vars

\* Registration next to login, credential update and reset; the two store
\* operations of a registration are two steps, and the random source may fail

NextRegister ==
    \/ Tick(Hour - 1)
    \/ \E conn \in Conns : ResetRequest(conn)
    \/ \E p \in pending, deleted \in BOOLEAN : ResetFinish(p, deleted)
    \/ \E body \in NewUsers \cup { BadJSON } : CreateUserRequest(body)
    \/ \E c \in creating, entropy \in BOOLEAN : CreateUserFinish(c, entropy)
    \/ \E body \in { TheUser, Renamed } : LoginRequest(1, body)
    \/ \E p \in pending : LoginTokens(p, TRUE, 0)
    \/ \E p \in pending : LoginFinish(p, 0)
    \/ \E headers \in AccessHeaders : UpdateCredentialsRequest(1, headers, Renamed, TRUE)
    \/ \E p \in pending, late \in Lates : UpdateCredentialsFinish(p, late)

SpecRegister == Init /\ [][NextRegister]_vars

\* MakeJWT and ValidateJWT on their own
InitJWT == StoreInit /\ platform = "dev" /\ probe \in JWTProbes

NextJWT ==
    \/ /\ probe.phase = "issued"
       /\ \E s2 \in ProbeSecrets, lag \in ProbeLags : ProbeValidate(s2, lag)
    \/ /\ probe.phase = "issued"
       /\ \E i \in 1..Len(probe.tok), c \in TamperChars : ProbeTamper(i, c)

SpecJWT == InitJWT /\ [][NextJWT]_vars

\* GetBearerToken and GetAPIKey on their own
InitHeader == StoreInit /\ platform = "dev" /\ probe \in HeaderProbes

NextHeader == ProbeGetBearerToken \/ ProbeGetAPIKey

SpecHeader == InitHeader /\ [][NextHeader]_vars

------------------------------------------------------------------------------
(* Claims about MakeJWT and ValidateJWT (SpecJWT) *)

\* the expires-at claim of the probed token: the second reading of the clock
\* + TTL, in whole seconds
ProbeExp == TimeOf(NumericDate(probe.t0 + probe.late + probe.d))

\* s without its trailing NUL bytes
RECURSIVE TrimNUL(_)
TrimNUL(s) == IF s # <<>> /\ s[Len(s)] = NUL THEN TrimNUL(SubSeq(s, 1, Len(s) - 1)) ELSE s

\* C1: for every user U, secret S and positive duration D, ValidateJWT of
\* MakeJWT(U, S, D) with S, at any time before the token's expiry, succeeds
\* and returns U.
C1_RoundTrip ==
    (probe.phase = "validated" /\ probe.s2 = probe.s /\ probe.d > 0 /\ probe.t < ProbeExp)
        => (probe.res.ok /\ probe.res.id = probe.u)

C1_Witness ==
    /\ probe.phase = "validated" /\ probe.s2 = probe.s /\ probe.d > 0 /\ probe.t < ProbeExp
    /\ probe.t > probe.t0
    /\ probe.res.ok /\ probe.res.id = probe.u

\* C2 as stated: for every pair of secrets S' # S, ValidateJWT(MakeJWT(U, S, D), S')
\* returns an error and no user identifier.
C2_AnyOtherSecretFails ==
    (probe.phase = "validated" /\ probe.s2 # probe.s)
        => (~probe.res.ok /\ probe.res.id = UUIDNil)

\* the key that HMAC makes of a secret: a secret longer than the block counts as
\* its SHA-256 digest, and trailing NUL bytes are lost in the zero padding
HMACKey(s) == TrimNUL(IF Len(s) > BlockSize THEN String(Sum256Known[Bytes(s)]) ELSE s)

\* C2 amended: ValidateJWT(MakeJWT(U, S, D), S') returns an error and no user
\* identifier for every S' that makes another HMAC key than S: the secrets of
\* at most 64 bytes that differ by more than trailing NUL bytes, and a secret
\* of more than 64 bytes against every secret but itself and its digest.
C2_OtherKeyFails ==
    (probe.phase = "validated" /\ HMACKey(probe.s2) # HMACKey(probe.s))
        => (~probe.res.ok /\ probe.res.id = UUIDNil)

C2_Witness ==
    /\ probe.phase = "validated"
    /\ probe.s = LongSecret /\ probe.s2 = LongSecretNUL
    /\ HMACKey(probe.s2) # HMACKey(probe.s)
    /\ probe.d > 0 /\ probe.t < ProbeExp
    /\ probe.res.err = "signature" /\ probe.res.id = UUIDNil

\* C3: a token made with a TTL of -1s is expired at once, and with the right
\* secret ValidateJWT fails at every time after issue time + TTL.
C3_ExpiredFails ==
    (probe.phase = "validated" /\ probe.s2 = probe.s)
        => /\ probe.d = 0 - Second => ~probe.res.ok
           /\ probe.t > probe.t0 + probe.late + probe.d => ~probe.res.ok

C3_Witness ==
    /\ probe.phase = "validated" /\ probe.s2 = probe.s
    /\ probe.d > 0 /\ probe.t > probe.t0 + probe.late + probe.d
    /\ probe.res.err = "expired"

\* C4: every string that differs from an issued token in exactly one character
\* position is rejected by ValidateJWT.
C4_TamperedFails == probe.phase = "tampered" => ~probe.res.ok

------------------------------------------------------------------------------
(* Claims about GetBearerToken (SpecHeader) *)

ProbeAuth == HeaderGet(probe.headers, "Authorization")

\* the positions of h where a run of non-space characters starts
FieldStarts(h) == { i \in 1..Len(h) : ~IsSpace(h[i]) /\ (i = 1 \/ IsSpace(h[i - 1])) }

\* tok is the second maximal run of non-space characters of h
IsSecondField(h, tok) ==
    \E i \in FieldStarts(h) :
        /\ Cardinality({ j \in FieldStarts(h) : j < i }) = 1
        /\ tok # <<>>
        /\ i + Len(tok) - 1 <= Len(h)
        /\ SubSeq(h, i, i + Len(tok) - 1) = tok
        /\ \A k \in 1..Len(tok) : ~IsSpace(tok[k])
        /\ (i + Len(tok) - 1 = Len(h) \/ IsSpace(h[i + Len(tok)]))

\* C9: GetBearerToken returns the second whitespace-separated field of the
\* Authorization header ("Bearer abc123" yields "abc123") and returns an error
\* when the header is absent or empty.
C9_BearerSecondField ==
    probe.phase = "bearer" =>
        /\ ProbeAuth = <<>> => probe.res.kind = "error"
        /\ Cardinality(FieldStarts(ProbeAuth)) >= 2 => probe.res.kind = "ok"
        /\ probe.res.kind = "ok" => IsSecondField(ProbeAuth, probe.res.token)
        /\ ProbeAuth = BearerAbc123 => probe.res.token = << "a","b","c","1","2","3" >>

C9_Witness ==
    /\ probe.phase = "bearer"
    /\ ProbeAuth = << VT, "a", NBSP, "b" >>
    /\ probe.res.kind = "ok"
    /\ probe.res.token = << "b" >>

\* C10: for every Authorization header value with fewer than two
\* whitespace-separated fields GetBearerToken returns an error value, and it
\* performs no out-of-range access for any header value.
C10_BearerNeverPanics ==
    probe.phase = "bearer" =>
        /\ probe.res.kind # "panic"
        /\ Cardinality(FieldStarts(ProbeAuth)) < 2 => probe.res.kind = "error"

------------------------------------------------------------------------------
(* Claims about refresh tokens (SpecSession) *)

\* the stored row of tok is neither revoked nor expired: now < expires_at
LiveBefore(tok) ==
    \E r \in refresh_tokens : r.token = tok /\ ~r.revoked_at.Valid /\ now < r.expires_at

\* C5: POST /api/refresh issues a new JWT only if the presented refresh token
\* is stored, unrevoked and the current time is strictly before its
\* expires_at; in every other case (expiry reached included) it responds 401
\* and issues no JWT.
C5_RefreshOnlyBeforeExpiry ==
    \A tok \in MadeRefreshTokens \cup { BogusToken } :
        LET out == refreshTokenHandler(BearerHeader(tok), 0, 0)
        IN  /\ out.token # <<>> => LiveBefore(tok)
            /\ ~LiveBefore(tok) => (out.resp.status = 401 /\ out.token = <<>>)

\* a refresh that presents a token for which a revoke has answered 204 is
\* answered 401 at once (no row, after a reset) or reads a revoked row; and a
\* refresh that holds a revoked row answers 401 and issues no JWT, however
\* long it takes and whatever is served meanwhile
RevokedRefused ==
    /\ \A tok \in revoked204 :
           LET out == refreshTokenHandlerGetRefreshToken(BearerHeader(tok))
           IN  /\ out.resp.status = 401 \/ out.resp = Unanswered
               /\ \A r \in out.rows : RefreshTokenRevoked(r)
               /\ refreshTokenHandler(BearerHeader(tok), 0, 0).resp.status = 401
               /\ refreshTokenHandler(BearerHeader(tok), 0, 0).token = <<>>
    /\ \A p \in pending :
           (p.op = "refresh" /\ p.revoked_at.Valid) =>
               \A wait \in Lates, late \in Lates :
                   /\ refreshTokenHandlerMakeJWT(RowRead(p), wait, late).resp.status = 401
                   /\ refreshTokenHandlerMakeJWT(RowRead(p), wait, late).token = <<>>

\* a refresh request that begins after the 204 holds a revoked row
RevokedRead ==
    \A p \in pending' \ pending :
        (p.op = "refresh" /\ p.token \in revoked204) => p.revoked_at.Valid

\* C6: once POST /api/revoke has answered 204 for a refresh token, every later
\* POST /api/refresh presenting that token (every request that begins after
\* the 204) answers 401 and issues no JWT, whatever logins, refreshes,
\* revokes, credential updates and resets are served before or during it.
C6_RevocationPermanent == []RevokedRefused /\ [][RevokedRead]_vars

\* a refresh presenting T read the row of T before the revoke of T answered
\* 204 and is still being served: it is not a later request and will answer
\* 200; a refresh presenting T that begins now is answered 401
C6_Witness ==
    \E r \in refresh_tokens, p \in pending :
        /\ r.token \in revoked204
        /\ r.revoked_at.Valid
        /\ now < r.expires_at
        /\ p.op = "refresh" /\ p.token = r.token /\ ~p.revoked_at.Valid
        /\ refreshTokenHandlerMakeJWT(RowRead(p), 0, 0).resp.status = 200
        /\ refreshTokenHandler(BearerHeader(r.token), 0, 0).resp
               = Resp(401, "Refresh token revoked")

\* the outcome of each revoke request in the current state: 401 and the table
\* as it is without a header; with bearer token T, 204 and the table with the
\* row of T stamped with the current time and every other row as it is
RevokeOutcomes ==
    \A headers \in RefreshHeaders :
        LET out == revokeRefreshTokenHandler(headers)
            bearer == GetBearerToken(headers)
        IN  /\ headers = NoHeaders =>
                   (out.resp.status = 401 /\ out.refresh_tokens = refresh_tokens)
            /\ bearer.kind = "ok" =>
                   /\ out.resp.status = 204
                   /\ \A r \in refresh_tokens :
                          IF r.token = bearer.token
                          THEN [r EXCEPT !.revoked_at = ValidTime(now),
                                         !.updated_at = now] \in out.refresh_tokens
                          ELSE r \in out.refresh_tokens
                   /\ Cardinality(out.refresh_tokens) = Cardinality(refresh_tokens)
                   /\ GetRefreshTokenByToken(refresh_tokens, bearer.token) = {} =>
                          out.refresh_tokens = refresh_tokens

\* a revoke request writes its outcome to refresh_tokens and nothing else to
\* the tables
RevokeWrites ==
    (refresh_tokens' # refresh_tokens \/ revoked204' # revoked204) =>
        \A headers \in RefreshHeaders :
            RevokeRequest(headers) =>
                /\ refresh_tokens' = revokeRefreshTokenHandler(headers).refresh_tokens
                /\ users' = users
                /\ chirps' = chirps

\* C7: POST /api/revoke without an Authorization header answers 401 and
\* changes nothing; with bearer token T it sets revoked_at and updated_at of
\* the row whose token is T to the current time and leaves every other
\* refresh-token row, every user and every chirp as they were; when no row has
\* token T nothing changes.
C7_RevokeFrame == []RevokeOutcomes /\ [][RevokeWrites]_vars

C7_Witness ==
    \E r1, r2 \in refresh_tokens :
        /\ r1.token \in revoked204
        /\ r1.revoked_at.Valid
        /\ r1.updated_at = r1.revoked_at.Time
        /\ r1.updated_at > r1.created_at
        /\ r2.token # r1.token
        /\ ~r2.revoked_at.Valid
        /\ r2.updated_at = r2.created_at

------------------------------------------------------------------------------
(* C8: the rows that reference users (SpecCascade) *)

\* every refresh token and every chirp references an existing user
RowsReferenceUsers ==
    /\ \A r \in refresh_tokens : UserExists(users, r.user_id)
    /\ \A c \in chirps : UserExists(users, c.user_id)

\* C8 as stated: every refresh token and every chirp references an existing
\* user; deleting the users deletes their refresh tokens and chirps with them,
\* so the refresh token of a deleted user is never exchanged for a JWT.
C8_ReferentialIntegrity ==
    /\ RowsReferenceUsers
    /\ \A tok \in MadeRefreshTokens :
           LET out == refreshTokenHandler(BearerHeader(tok), 0, 0)
           IN  out.resp.status = 200 =>
                   UserExists(users, ValidateJWT(out.token, jwtSecret, now).id)
    /\ \A p \in pending :
           p.op = "refresh" =>
               LET out == refreshTokenHandlerMakeJWT(RowRead(p), 0, 0)
               IN  out.resp.status = 200 =>
                       UserExists(users, ValidateJWT(out.token, jwtSecret, now).id)

\* C8, amended: every refresh token and every chirp references an existing
\* user; deleting the users deletes their refresh tokens and chirps with them,
\* so a refresh that looks its token up after the deletion finds no row and
\* answers 401.  (A refresh that read the row before the deletion still
\* answers 200 with a JWT for the deleted user.)
C8_RowsDeletedWithUsers ==
    /\ RowsReferenceUsers
    /\ \A tok \in MadeRefreshTokens :
           LET out == refreshTokenHandlerGetRefreshToken(BearerHeader(tok))
           IN  IF \E r \in out.rows : UserExists(users, r.user_id)
               THEN out.resp = Unanswered
               ELSE out = [resp |-> Resp(401, "Invalid refresh token"), rows |-> {}]

\* a user had logged in and stored a chirp when the users were deleted: no
\* row references the user any more and the refresh token finds no row
C8_Witness ==
    /\ issued # {}
    /\ nextUUID > 0
    /\ users = {}
    /\ refresh_tokens = {}
    /\ chirps = {}
    /\ refreshTokenHandler(BearerHeader(MakeRefreshToken(1)), 0, 0).resp
           = Resp(401, "Invalid refresh token")

------------------------------------------------------------------------------
(* Claims about GetAPIKey (SpecHeader) *)

\* tok is the last maximal run of non-space characters of h
IsLastField(h, tok) ==
    \E i \in FieldStarts(h) :
        /\ \A j \in FieldStarts(h) : j <= i
        /\ tok # <<>>
        /\ tok = SubSeq(h, i, i + Len(tok) - 1)
        /\ \A k \in 1..Len(tok) : ~IsSpace(tok[k])
        /\ (i + Len(tok) - 1 = Len(h) \/ IsSpace(h[i + Len(tok)]))

\* C11: GetAPIKey returns the last whitespace-separated field of the
\* Authorization header ("ApiKey xyz" and a bare "xyz" both yield "xyz") and
\* returns an error, never a fault, when the header is absent, empty or only
\* whitespace.
C11_ApiKeyLastField ==
    probe.phase = "apikey" =>
        /\ probe.res.kind # "panic"
        /\ FieldStarts(ProbeAuth) = {} => probe.res.kind = "error"
        /\ FieldStarts(ProbeAuth) # {} =>
               (probe.res.kind = "ok" /\ IsLastField(ProbeAuth, probe.res.token))
        /\ ProbeAuth \in { ApiKeyXyz, << "x","y","z" >> } =>
               probe.res.token = << "x","y","z" >>

C11_Witness ==
    /\ probe.phase = "apikey"
    /\ ProbeAuth = << "a", " ", "b", VT >>
    /\ probe.res.kind = "ok"
    /\ probe.res.token = << "b" >>

------------------------------------------------------------------------------
(* C12: the status answered when a function of the auth package fails *)

\* an access token signed by someone who does not know the server's secret
ForgedTokens == { MakeJWT(u.id, << "w" >>, Hour, now, 0) : u \in users }

\* the Authorization headers a client may send to a bearer-token endpoint
AuthHeaders ==
    AccessHeaders \cup RefreshHeaders \cup { BearerHeader(tok) : tok \in ForgedTokens }

BearerErr(h) == GetBearerToken(h).kind = "error"

BearerOk(h) == GetBearerToken(h).kind = "ok"

JWTErr(h) == BearerOk(h) /\ ~ValidateJWT(GetBearerToken(h).token, jwtSecret, now).ok

JWTOk(h) == BearerOk(h) /\ ValidateJWT(GetBearerToken(h).token, jwtSecret, now).ok

\* an error returned by GetBearerToken, ValidateJWT, GetAPIKey or
\* CheckPasswordHash, in whichever handler calls it, is answered with 401
CredentialErrors401 ==
    /\ \A h \in AuthHeaders :
           BearerErr(h) =>
               /\ \A wait \in Lates, late \in Lates :
                      refreshTokenHandler(h, wait, late).resp.status = 401
               /\ revokeRefreshTokenHandler(h).resp.status = 401
               /\ \A body \in ChirpBodies, late \in Lates :
                      createChirpHandler(h, [body |-> body], late).resp.status = 401
               /\ \A path \in DeletePaths : deleteChirpHandler(h, path).resp.status = 401
               /\ \A body \in Credentials \cup { BadJSON }, entropy \in BOOLEAN,
                      late \in Lates :
                      updateCredentialsHandler(h, body, entropy, late).resp.status = 401
    /\ \A h \in AuthHeaders :
           JWTErr(h) =>
               /\ \A body \in ChirpBodies :
                      createChirpHandler(h, [body |-> body], 0).resp.status = 401
               /\ \A path \in DeletePaths : deleteChirpHandler(h, path).resp.status = 401
               /\ \A body \in NewCredentials, entropy \in BOOLEAN :
                      body.email # "" =>
                          updateCredentialsHandler(h, body, entropy, 0).resp.status = 401
    /\ \A h \in ApiKeyHeaders :
           GetAPIKey(h).kind = "error" =>
               \A body \in Webhooks \cup { BadJSON } :
                   setChirpyRedHandler(h, body).resp.status = 401
    /\ \A body \in Credentials, entropy \in BOOLEAN, late \in Lates :
           \A u \in GetUserByEmail(users, body.email) :
               ~CheckPasswordHash(u.hashed_password, body.password) =>
                   loginHandler(body, entropy, late).resp.status = 401

\* the status answered when HashPassword or MakeRefreshToken is reached and
\* its random source fails
GenerationErrors(status) ==
    /\ \A c \in creating : createUserHandlerSetPassword(c, FALSE).resp.status = status
    /\ \A h \in AuthHeaders :
           JWTOk(h) =>
               \A body \in NewCredentials :
                   body.email # "" =>
                       updateCredentialsHandler(h, body, FALSE, 0).resp.status = status
    /\ \A body \in Credentials, late \in Lates :
           \A u \in GetUserByEmail(users, body.email) :
               CheckPasswordHash(u.hashed_password, body.password) =>
                   loginHandler(body, FALSE, late).resp.status = status

\* C12 as stated: in every handler, a failure returned by any of
\* GetBearerToken, GetAPIKey, ValidateJWT, CheckPasswordHash, HashPassword,
\* MakeJWT and MakeRefreshToken is answered with HTTP 401. (MakeJWT signs with
\* a byte-slice HMAC key and returns no error.)
C12_EveryCoreFailure401 == CredentialErrors401 /\ GenerationErrors(401)

\* C12, amended: an error returned by GetBearerToken, GetAPIKey, ValidateJWT
\* or CheckPasswordHash is answered with HTTP 401, and a failure of
\* HashPassword or MakeRefreshToken is answered with HTTP 500.
C12_CoreFailureStatus == CredentialErrors401 /\ GenerationErrors(500)

\* a registered user holds an access token that has expired, a forged one is
\* refused too, and a login with the right password meets a failing random
\* source
C12_Witness ==
    /\ \E tok \in issued :
           /\ ValidateJWT(tok, jwtSecret, now).err = "expired"
           /\ createChirpHandler(BearerHeader(tok), [body |-> << "h","i" >>], 0).resp
                  = Resp(401, "Invalid token")
    /\ \E tok \in ForgedTokens : ValidateJWT(tok, jwtSecret, now).err = "signature"
    /\ loginHandler(TheUser, FALSE, 0).resp = Resp(500, "Failed to create refresh token")

------------------------------------------------------------------------------
(* C13: what a client learns from a refused request *)

\* the responses of POST /api/chirps to requests that fail authentication
ChirpAuthFailures ==
    { createChirpHandler(h, [body |-> << "h","i" >>], 0).resp :
          h \in { g \in AuthHeaders : BearerErr(g) \/ JWTErr(g) } }

\* the responses of POST /api/refresh to requests that fail authentication
RefreshAuthFailures ==
    { refreshTokenHandler(h, 0, 0).resp :
          h \in { g \in AuthHeaders :
                      BearerErr(g) \/
                      (BearerOk(g) /\ refreshTokenHandler(g, 0, 0).resp.status # 200) } }

\* the responses of POST /api/polka/webhooks to requests that fail authentication
WebhookAuthFailures ==
    { setChirpyRedHandler(h, body).resp :
          h \in { g \in ApiKeyHeaders :
                      GetAPIKey(g).kind = "error" \/ GetAPIKey(g).token # polkaKey },
          body \in Webhooks }

\* C13: on each endpoint, the requests that fail authentication get one and the
\* same response (status code and error message), whatever the cause of the
\* failure: missing header, bad signature, expired JWT, unknown, expired or
\* revoked refresh token, wrong API key.
C13_CauseHidden ==
    /\ Cardinality(ChirpAuthFailures) <= 1
    /\ Cardinality(RefreshAuthFailures) <= 1
    /\ Cardinality(WebhookAuthFailures) <= 1

------------------------------------------------------------------------------
(* C14: a refused login does not tell which check failed *)

\* no user has this email, or the hash stored for it is not a hash of this
\* password (a wrong password, or the 'unset' default that is no hash at all)
LoginMustFail(body) ==
    \A u \in users : u.email = body.email => u.hashed_password # HashPassword(body.password)

\* the row a login stores when it goes on to CreateRefreshToken at once
LoginRows(out) ==
    IF out.resp # Unanswered THEN {}
    ELSE loginHandlerCreateRefreshToken(Pending(1, "login", out.id, out.token, out.refresh),
                                        0).rows

\* C14: a login for an email with no user and a login for an existing email
\* with a wrong password or a malformed stored hash get the identical
\* response, 401 "Incorrect email or password", carry no token and create no
\* refresh-token row.
C14_LoginFailureUniform ==
    \A body \in Credentials, entropy \in BOOLEAN, late \in Lates :
        LoginMustFail(body) =>
            LET out == loginHandler(body, entropy, late)
            IN  /\ out.resp = Resp(401, "Incorrect email or password")
                /\ LoginRows(out) = {}
                /\ out.token = <<>>
                /\ out.refresh = <<>>

\* a@x is registered with password p1 and b@x is not registered: a wrong
\* password for a@x and any password for b@x are refused alike
C14_Witness ==
    /\ \E u \in users : u.email = "a@x" /\ u.hashed_password = HashPassword("p1")
    /\ GetUserByEmail(users, "b@x") = {}
    /\ loginHandler([email |-> "a@x", password |-> "p2"], TRUE, 0).resp
           = loginHandler([email |-> "b@x", password |-> "p2"], TRUE, 0).resp
    /\ loginHandler([email |-> "a@x", password |-> "p2"], TRUE, 0).resp.status = 401

------------------------------------------------------------------------------
(* C15: ownership of refresh tokens and the effect of a login on them *)

\* a token is stored once, so it has one owner
OneOwner == \A r1, r2 \in refresh_tokens : r1.token = r2.token => r1 = r2

\* a login that passes its checks holds the user of the email given and a
\* token not stored before; when it then succeeds it makes one row: that
\* token, owned by that user, unrevoked and not yet expired
LoginOutcomes ==
    /\ \A body \in Credentials :
           LET out == loginHandler(body, TRUE, 0)
           IN  out.resp = Unanswered =>
                   /\ \E u \in users : u.email = body.email /\ u.id = out.id
                   /\ \A r \in refresh_tokens : r.token # out.refresh
                   /\ Cardinality(LoginRows(out)) = 1
    /\ \A p \in pending :
           p.op = "login" =>
               LET out == loginHandlerCreateRefreshToken(p, 0)
               IN  out.resp.status = 200 =>
                       /\ Cardinality(out.rows) = 1
                       /\ \A row \in out.rows :
                              /\ row.token = p.refresh
                              /\ row.token = out.refresh
                              /\ \A r \in refresh_tokens : r.token # row.token
                              /\ row.user_id = p.id
                              /\ UserExists(users, row.user_id)
                              /\ row.revoked_at = NullTime
                              /\ now < row.expires_at

\* a stored token keeps its owner for as long as it is stored
OwnerKept ==
    refresh_tokens' # refresh_tokens =>
        \A r \in refresh_tokens, n \in refresh_tokens' :
            r.token = n.token => n.user_id = r.user_id

\* a step in which a login ends adds the row of that login, or none when the
\* login fails, and changes no other row
LoginWrites ==
    \A p \in pending :
        (p.op = "login" /\ p \notin pending') =>
            /\ refresh_tokens' \in
                   { refresh_tokens,
                     refresh_tokens \cup loginHandlerCreateRefreshToken(p, 0).rows }
            /\ loginHandlerCreateRefreshToken(p, 0).resp.status = 200 =>
                   Cardinality(refresh_tokens') = Cardinality(refresh_tokens) + 1
            /\ refresh_tokens \subseteq refresh_tokens'
            /\ users' = users

\* C15: each stored refresh token has exactly one owning user, which never
\* changes, and a user may hold several usable refresh tokens at once: a
\* successful login inserts exactly one new unrevoked row for the
\* authenticated user and leaves every row stored before, of that user and of
\* others, unchanged.
C15_LoginAddsOneToken == [](OneOwner /\ LoginOutcomes) /\ [][OwnerKept /\ LoginWrites]_vars

\* one user holds two refresh tokens that are both usable
C15_Witness ==
    \E u \in users :
        Cardinality({ r \in refresh_tokens : r.user_id = u.id /\ LiveBefore(r.token) }) >= 2

------------------------------------------------------------------------------
(* C16: the hit counter *)

\* a step that changes the counter is one request through
\* middlewareMetricsInc, which adds exactly one, or a reset that stores 0
CountsEveryHit ==
    metricsHandler' # metricsHandler =>
        \/ /\ FileServerRequest
           /\ metricsHandler' > metricsHandler
           /\ metricsHandler' - metricsHandler = 1
        \/ (\E conn \in Conns : ResetRequest(conn)) /\ metricsHandler' = 0

\* C16 as stated: no update is lost, so that after k file-server requests with
\* no reset in between the metrics handler reads the previous value plus k,
\* and the counter never decreases except when a reset stores 0.
C16_HitsExact == [][CountsEveryHit]_vars

\* the same, in the arithmetic of the 32-bit counter: the request that finds
\* the counter at its largest value takes it to its smallest
CountsEveryHitInt32 ==
    metricsHandler' # metricsHandler =>
        \/ /\ FileServerRequest
           /\ metricsHandler < MaxInt32 => metricsHandler' = metricsHandler + 1
           /\ metricsHandler = MaxInt32 => metricsHandler' = MinInt32
        \/ (\E conn \in Conns : ResetRequest(conn)) /\ metricsHandler' = 0

\* C16, amended: every file-server request adds exactly one to the counter in
\* signed 32-bit arithmetic, so no update is lost, and the counter decreases
\* only when a reset stores 0 or when it wraps around from 2^31 - 1.
C16_HitsExactInt32 == [][CountsEveryHitInt32]_vars

\* the counter has wrapped around and counted on
C16_Witness == metricsHandler = MinInt32 + 1

------------------------------------------------------------------------------
(* C17: hashing a password and checking a candidate against the hash *)

\* C17: for every password P that HashPassword hashes, CheckPasswordHash of
\* the hash and P succeeds, and CheckPasswordHash of the hash and any other
\* password returns an error.
C17_HashThenCheck ==
    probe.phase = "checked" => (probe.ok <=> probe.candidate = probe.password)

\* the password of the test was hashed and the wrong one of the test refused
C17_Witness ==
    /\ probe.phase = "checked"
    /\ probe.password = "testPassword123"
    /\ probe.candidate = "wrongPassword"
    /\ ~probe.ok

------------------------------------------------------------------------------
(* C18: the shape of a refresh token *)

IsHexString(tok) == \A i \in 1..Len(tok) : \E d \in 1..16 : tok[i] = HexDigits[d]

\* C18: MakeRefreshToken returns a string of exactly 64 hexadecimal
\* characters, and two calls return two different strings.
C18_RefreshTokenShape ==
    probe.phase = "tokens" =>
        /\ Len(probe.tok1) = 64 /\ IsHexString(probe.tok1)
        /\ Len(probe.tok2) = 64 /\ IsHexString(probe.tok2)
        /\ probe.tok1 # probe.tok2

\* two tokens whose random bytes differ in one half-byte only
C18_Witness ==
    /\ probe.phase = "tokens"
    /\ probe.k1 = 1 /\ probe.k2 = 17
    /\ SubSeq(probe.tok1, 63, 64) = << "0", "1" >>
    /\ SubSeq(probe.tok2, 63, 64) = << "1", "1" >>

------------------------------------------------------------------------------
(* C19: the profanity filter *)

\* the six forms: each word capitalised and in lower case
ProfaneForms ==
    { wordsToCheck[k] : k \in 1..3 } \cup { ToLower(wordsToCheck[k]) : k \in 1..3 }

\* the sentence with every occurrence of a form replaced by four stars, read
\* once from left to right
RECURSIVE Censored(_)
Censored(s) ==
    IF s = <<>> THEN <<>>
    ELSE IF \E f \in ProfaneForms : HasPrefix(s, f)
    THEN LET f == CHOOSE g \in ProfaneForms : HasPrefix(s, g)
         IN  Stars \o Censored(SubSeq(s, Len(f) + 1, Len(s)))
    ELSE <<Head(s)>> \o Censored(Tail(s))

\* C19: replaceProfane replaces every occurrence of "Kerfuffle", "Sharbert"
\* and "Fornax", capitalised or in lower case and also next to punctuation, by
\* "****" and leaves every other text, the empty one included, as it is; its
\* output contains none of the six forms, so applying it again changes
\* nothing.
C19_ProfaneReplaced ==
    probe.phase = "cleaned" =>
        /\ probe.cleaned = Censored(probe.sentence)
        /\ (\A f \in ProfaneForms : ~Contains(probe.sentence, f)) =>
               probe.cleaned = probe.sentence
        /\ \A f \in ProfaneForms : ~Contains(probe.cleaned, f)
        /\ replaceProfane(probe.cleaned) = probe.cleaned

\* a word twice in one sentence, capitalised and next to punctuation the
\* second time
C19_Witness ==
    /\ probe.phase = "cleaned"
    /\ probe.sentence = ToLower(wordsToCheck[1]) \o wordsToCheck[1] \o << "!" >>
    /\ probe.cleaned = Stars \o Stars \o << "!" >>

------------------------------------------------------------------------------
(* C20: who may upgrade a user through the webhook *)

\* the request carries the key configured for the server
KeyMatches(h) == GetAPIKey(h).kind = "ok" /\ GetAPIKey(h).token = polkaKey

ChirpyRed(tbl) == { u.id : u \in { v \in tbl : v.is_chirpy_red } }

\* C20: the webhook accepts a request if and only if the API key extracted
\* from its Authorization header equals the key configured for the server: on
\* a mismatch it answers 401 and no user's is_chirpy_red changes; with the
\* matching key it does not answer 401, and for the event "user.upgraded" and
\* an existing user that user's is_chirpy_red becomes true.
C20_WebhookKey ==
    \A h \in ApiKeyHeaders, body \in Webhooks :
        LET out == setChirpyRedHandler(h, body)
            userID == UUIDParse(body.user_id)
        IN  /\ ~KeyMatches(h) =>
                   out.resp.status = 401 /\ ChirpyRed(out.users) = ChirpyRed(users)
            /\ KeyMatches(h) => out.resp.status # 401
            /\ (KeyMatches(h) /\ body.event = UserUpgraded /\ userID.ok
                    /\ UserExists(users, userID.id)) =>
                   userID.id \in ChirpyRed(out.users)

\* a registered user, and a "user.upgraded" request for that user with a key
\* that is not the configured one: 401 "Forbidden", and the user is not
\* upgraded
C20_Witness ==
    \E u \in users :
        LET out == setChirpyRedHandler(WithAuthorization(ApiKeyXyz),
                                       [event |-> UserUpgraded, user_id |-> UUIDString(u.id)])
        IN  /\ u.hashed_password = HashPassword("p1")
            /\ ~KeyMatches(WithAuthorization(ApiKeyXyz))
            /\ out.resp = Resp(401, "Forbidden")
            /\ out.users = users
            /\ ~u.is_chirpy_red

------------------------------------------------------------------------------
(* C21: a session JWT cannot be called back *)

\* the claims a token carries, as its second segment spells them
ClaimsOf(tok) == UnmarshalClaims(DecodeSegment(Split(tok, ".")[2]).bytes).claims

\* the user a token names
SubjectOf(tok) == UUIDParse(ClaimsOf(tok).sub).id

\* before its expiry an issued JWT validates with the user it names, and the
\* handlers that authenticate with it let it through as that user, whatever
\* the store holds
IssuedValidate ==
    \A tok \in issued :
        now < TimeOf(ClaimsOf(tok).exp) =>
            /\ ValidateJWT(tok, jwtSecret, now)
                   = [ok |-> TRUE, id |-> SubjectOf(tok), err |-> ""]
            /\ createChirpHandlerValidateJWT(BearerHeader(tok), [body |-> << "h","i" >>])
                   = [resp |-> Unanswered, id |-> SubjectOf(tok)]
            /\ updateCredentialsHandlerValidateJWT(BearerHeader(tok), Renamed, TRUE)
                   = [resp |-> Unanswered, id |-> SubjectOf(tok)]
            /\ deleteChirpHandlerValidateJWT(BearerHeader(tok), UUIDString(1))
                   = [resp |-> Unanswered, id |-> 1, user |-> SubjectOf(tok)]

\* a JWT is issued by a login or a refresh that ends, names the user the
\* handler held, and stays issued
IssuedFor ==
    /\ issued \subseteq issued'
    /\ \A tok \in issued' \ issued :
           \E p \in pending \ pending' :
               /\ p.op \in { "login", "refresh" }
               /\ SubjectOf(tok) = p.id

\* C21: a JWT issued by login or refresh for a user validates, with that user
\* identifier, at every time before its expiry, whatever requests were served
\* since: a revoke of the refresh token, a credential update or the deletion
\* of the user do not invalidate it.
C21_JWTStateless == []IssuedValidate /\ [][IssuedFor]_vars

\* a refresh token was revoked and every user deleted, and a JWT issued
\* before, at a time strictly between its issue and its expiry, still
\* validates and passes the authentication of POST /api/chirps, which then
\* fails on the missing user
C21_Witness ==
    /\ users = {}
    /\ revoked204 # {}
    /\ \E tok \in issued :
           /\ TimeOf(ClaimsOf(tok).iat) < now
           /\ now < TimeOf(ClaimsOf(tok).exp)
           /\ ValidateJWT(tok, jwtSecret, now).ok
           /\ createChirpHandler(BearerHeader(tok), [body |-> << "h","i" >>], 0).resp
                  = Resp(500, "Failed to create chirp")

------------------------------------------------------------------------------
(* C22: whose JWT a refresh returns *)

\* the expiry of a JWT made for one hour by a handler that reads the clock
\* now and for the last time late ticks after
HourFrom(late) == TimeOf(NumericDate(now + late + Hour))

\* C22: a successful refresh with refresh token T returns a JWT whose subject
\* is the user that owns T, never another user, and which is valid for one
\* hour from the refresh: it validates up to the last instant before that
\* hour ends and is expired from then on.
C22_RefreshForOwner ==
    \A h \in RefreshHeaders, wait \in Lates, late \in Lates :
        LET out == refreshTokenHandler(h, wait, late)
            end == HourFrom(wait + late)
        IN  (wait + late <= MaxLate /\ out.resp.status = 200) =>
                /\ \E r \in refresh_tokens : r.token = GetBearerToken(h).token
                /\ \A r \in refresh_tokens :
                       r.token = GetBearerToken(h).token =>
                           /\ ValidateJWT(out.token, jwtSecret, now + wait + late)
                                  = [ok |-> TRUE, id |-> r.user_id, err |-> ""]
                           /\ ValidateJWT(out.token, jwtSecret, end - 1).ok
                           /\ ValidateJWT(out.token, jwtSecret, end).err = "expired"
                /\ now + Hour - Second < end /\ end <= now + wait + late + Hour

\* two users hold a refresh token each, and a refresh with the token of one
\* has returned a JWT
C22_Witness ==
    \E r1, r2 \in refresh_tokens :
        /\ r1.user_id # r2.user_id
        /\ refreshTokenHandler(BearerHeader(r1.token), 0, 0).resp.status = 200
        /\ refreshTokenHandler(BearerHeader(r1.token), 0, 0).token \in issued
        /\ ValidateJWT(refreshTokenHandler(BearerHeader(r1.token), 0, 0).token, jwtSecret, now).id
               = r1.user_id

------------------------------------------------------------------------------
(* C23: a refresh reads the store and writes nothing *)

\* the refresh tokens that can be exchanged for a JWT
Exchangeable ==
    { r \in refresh_tokens :
          refreshTokenHandler(BearerHeader(r.token), 0, 0).resp.status = 200 }

\* whatever a refresh request presents and however long it takes, answered
\* 200 or 401, the table it leaves is the table it found; and every stored
\* token that is neither revoked nor expired can be exchanged, however often
\* it has been
RefreshOutcomes ==
    /\ \A h \in RefreshHeaders, wait \in Lates, late \in Lates :
           refreshTokenHandler(h, wait, late).refresh_tokens = refresh_tokens
    /\ \A r \in refresh_tokens :
           (r.token \in MadeRefreshTokens /\ ~RefreshTokenRevoked(r)
                /\ ~RefreshTokenExpired(r, now)) =>
               r \in Exchangeable
    /\ \A p \in pending :
           p.op = "refresh" =>
               \A wait \in Lates, late \in Lates :
                   refreshTokenHandlerMakeJWT(RowRead(p), wait, late).refresh_tokens
                       = refresh_tokens

\* a step of POST /api/refresh, the one that reads the row or the one that
\* answers, leaves the tables as they were and makes no refresh token: the
\* row presented is stored unchanged after the answer
RefreshWrites ==
    \A p \in (pending' \ pending) \cup (pending \ pending') :
        p.op = "refresh" =>
            /\ UNCHANGED <<refresh_tokens, users, chirps, nextRand>>
            /\ \A r \in refresh_tokens : r.token = p.token => r \in refresh_tokens'

\* C23: POST /api/refresh never modifies persisted state: successful or not,
\* it creates no token and neither revokes nor extends the one presented, so
\* the same unexpired, unrevoked refresh token can be exchanged any number of
\* times.
C23_RefreshReadOnly == []RefreshOutcomes /\ [][RefreshWrites]_vars

\* one refresh token has been exchanged for a second JWT, by a refresh that
\* read the clock twice, and can be exchanged again
C23_Witness ==
    /\ nextRand = 1
    /\ lates > 0
    /\ Cardinality(issued) = 2
    /\ Exchangeable # {}

------------------------------------------------------------------------------
(* C24: who may delete a chirp *)

\* the user a request is authenticated as: the subject of its valid JWT
Subject(h) == ValidateJWT(GetBearerToken(h).token, jwtSecret, now).id

\* a DELETE request goes on to DeleteChirpByID for chirp C only with a valid
\* JWT of C's user; with a valid JWT of another user it gets 403, without a
\* valid JWT 401
DeleteOutcomes ==
    \A h \in AuthHeaders, path \in DeletePaths :
        LET out == deleteChirpHandler(h, path)
        IN  \A c \in chirps :
                /\ (out.resp = Unanswered /\ out.id = c.id) =>
                       (JWTOk(h) /\ Subject(h) = c.user_id)
                /\ (path = UUIDString(c.id) /\ JWTOk(h) /\ Subject(h) # c.user_id) =>
                       out.resp.status = 403
                /\ ~JWTOk(h) => out.resp.status = 401

\* a chirp leaves the table with its user or in the DeleteChirpByID of a
\* request that was let through for it
DeleteWrites ==
    chirps' # chirps =>
        \A c \in chirps \ chirps' :
            \/ ~UserExists(users', c.user_id)
            \/ \E p \in pending : p.op = "delete" /\ p.chirp = c.id /\ p \notin pending'

\* C24: a DELETE request removes chirp C only if it carries a valid JWT whose
\* subject is C's user_id; a request for C with a valid JWT of another user
\* gets 403, a request without a valid JWT gets 401, and in both cases C
\* remains stored.
C24_DeleteByAuthorOnly == []DeleteOutcomes /\ [][DeleteWrites]_vars

------------------------------------------------------------------------------
(* C25: the author of a chirp *)

\* POST /api/chirps with a body that names an author of its own
ChirpOutcomes ==
    \A h \in AuthHeaders, b \in { << "h","i" >>, <<>> }, u \in users, late \in Lates :
        LET out == createChirpHandler(h, [body |-> b, user_id |-> UUIDString(u.id)], late)
        IN  /\ Cardinality(out.chirps \ chirps) <= 1
            /\ \A c \in out.chirps \ chirps : JWTOk(h) /\ c.user_id = Subject(h)
            /\ ~JWTOk(h) => out.chirps = chirps

\* a chirp that appears in the table belongs to the user of the request that
\* inserts it, and that user is the subject of a JWT that is valid when the
\* request is authenticated
ChirpWrites ==
    /\ \A p \in pending' \ pending :
           p.op = "chirp" =>
               \E tok \in issued :
                   ValidateJWT(tok, jwtSecret, now) = [ok |-> TRUE, id |-> p.id, err |-> ""]
    /\ chirps' # chirps =>
           \A c \in chirps' \ chirps :
               \E p \in pending \ pending' : p.op = "chirp" /\ p.id = c.user_id

\* C25: every chirp stored by createChirp has as user_id the subject of the
\* valid JWT presented in that request; the request body cannot choose the
\* author, and a request without a valid JWT stores no chirp.
C25_ChirpAuthor == []ChirpOutcomes /\ [][ChirpWrites]_vars

\* both users have logged in, and one of them has stored a chirp with a JWT
\* that was valid when the request was authenticated and had expired when the
\* row was inserted
C25_Witness ==
    /\ \E t1, t2 \in issued :
           ValidateJWT(t1, jwtSecret, T0).id # ValidateJWT(t2, jwtSecret, T0).id
    /\ \E c \in chirps, tok \in issued :
           /\ ValidateJWT(tok, jwtSecret, c.created_at - 1)
                  = [ok |-> TRUE, id |-> c.user_id, err |-> ""]
           /\ ValidateJWT(tok, jwtSecret, c.created_at).err = "expired"

------------------------------------------------------------------------------
(* C26: the bodies of stored chirps *)

\* every stored body is at most 140 bytes long and free of the six forms
StoredBodiesClean ==
    \A c \in chirps :
        /\ Len(c.body) <= MaxChirpLen
        /\ \A f \in ProfaneForms : ~Contains(c.body, f)

\* a body of more than 140 bytes is not stored, whoever sends it
LongBodyNotStored ==
    \A h \in AuthHeaders, b \in ChirpBodies :
        Len(b) > MaxChirpLen => createChirpHandler(h, [body |-> b], 0).chirps = chirps

\* a body of at most 140 bytes is stored filtered, and filtering does not
\* lengthen it
FilteredBodyBounded ==
    \A h \in AuthHeaders, b \in ChirpBodies :
        \A c \in createChirpHandler(h, [body |-> b], 0).chirps \ chirps :
            Len(c.body) <= Len(b) /\ Len(b) <= MaxChirpLen

\* C26 as stated: every stored chirp body is at most 140 bytes long and
\* contains none of the filtered words; every create request whose body
\* exceeds 140 bytes gets 400 and stores nothing.
C26_LongBody400 ==
    /\ StoredBodiesClean
    /\ LongBodyNotStored
    /\ FilteredBodyBounded
    /\ \A h \in AuthHeaders, b \in ChirpBodies :
           Len(b) > MaxChirpLen => createChirpHandler(h, [body |-> b], 0).resp.status = 400

\* C26, amended: every stored chirp body is at most 140 bytes long and
\* contains none of the filtered words; a create request whose body exceeds
\* 140 bytes stores nothing and, when it carries a valid JWT, gets 400;
\* without a valid JWT it is refused before its length is looked at: 401
\* without an Authorization header or with a JWT that does not validate, and
\* no response at all (the handler panics) when the header has one field
\* only; the length check made before filtering bounds the filtered body.
C26_StoredBodies ==
    /\ StoredBodiesClean
    /\ LongBodyNotStored
    /\ FilteredBodyBounded
    /\ \A h \in AuthHeaders, b \in ChirpBodies :
           Len(b) > MaxChirpLen =>
               LET out == createChirpHandler(h, [body |-> b], 0)
               IN  /\ JWTOk(h) => out.resp = Resp(400, "Chirp is too long")
                   /\ BearerErr(h) => out.resp = Resp(401, "Unauthorized")
                   /\ JWTErr(h) => out.resp = Resp(401, "Invalid token")
                   /\ GetBearerToken(h).kind = "panic" => out.resp = Panicked
                   /\ JWTOk(h) \/ BearerErr(h) \/ JWTErr(h)
                          \/ GetBearerToken(h).kind = "panic"

\* a body of exactly 140 bytes that ends in a filtered word is stored,
\* filtered and shorter
C26_Witness ==
    \E c \in chirps :
        /\ c.body = Repeat("a", MaxChirpLen - Len(wordsToCheck[3])) \o Stars
        /\ Len(c.body) < MaxChirpLen


\* loginHandler answers 200 for these credentials: a row with the e-mail
\* address whose hash matches the password
CanLogin(tbl, body) ==
    \E u \in GetUserByEmail(tbl, body.email) :
        CheckPasswordHash(u.hashed_password, body.password)

\* the registration c ends with this outcome of the random source
CreateUserAnswers(c, entropy, status) ==
    /\ CreateUserFinish(c, entropy)
    /\ createUserHandlerSetPassword(c, entropy).resp.status = status

\* a registration that answers 201 leaves an account that can log in
LoginAfter201 ==
    creating' # creating =>
        \A c \in creating :
            CreateUserAnswers(c, TRUE, 201) =>
                CanLogin(users', [email |-> c.email, password |-> c.password])

\* credentials that can log in keep doing so on every step other than a
\* credential update or a reset
LoginKept ==
    users' # users =>
        \A body \in Credentials :
            (CanLogin(users, body) /\ ~CanLogin(users', body)) =>
                \/ \E p \in pending : ResetFinish(p, TRUE)
                \/ \E p \in pending, late \in Lates : UpdateCredentialsFinish(p, late)

\* login passes its checks exactly for the credentials of a row with a
\* matching hash, and then stores its refresh token and answers 200
LoginByRow ==
    \A body \in Credentials :
        /\ loginHandler(body, TRUE, 0).resp = Unanswered <=> CanLogin(users, body)
        /\ CanLogin(users, body) => LoginRows(loginHandler(body, TRUE, 0)) # {}

\* C27 as stated: after a create-user request for (email, password) answers
\* 201, a login with that e-mail address and password succeeds until a
\* credential update (or a reset that follows the answer) intervenes, in every
\* interleaving with other create-user, login and reset requests, although
\* the row is inserted and the hash is set by e-mail address in two store
\* operations.
C27_LoginAfterCreate ==
    []LoginByRow /\ [][LoginAfter201 /\ LoginKept]_vars

\* C28 as stated: a create-user request that answers 400 or 500 leaves the
\* users table as it was before the request: no row for its e-mail address
\* is left by it, in particular none whose hashed_password is still 'unset'.
C28_FailedCreateNoRow ==
    /\ [](\A body \in NewUsers \cup { BadJSON } :
              createUserHandlerInsert(body).resp.status \in { 400, 500 } =>
                  createUserHandlerInsert(body).users = users)
    /\ [][creating' # creating =>
              \A c \in creating :
                  CreateUserAnswers(c, FALSE, 500) =>
                      \A u \in users' :
                          u.id = c.id \/ u.email = c.email =>
                              u.hashed_password # Unset]_vars

==============================================================================
